---- MODULE Spec2Model ----
(***************************************************************************)
(* Scene-graph distribution of ramses: SceneGraphComponent (the            *)
(* distribution router) together with the per-scene replication logic it   *)
(* owns and the per-scene update stream deserializer it feeds.             *)
(*                                                                         *)
(* Every operation of the component is one action.  The calls an operation *)
(* makes on its collaborators (the attached ISceneRendererHandler, the     *)
(* ICommunicationSystem, IResource::compress) are recorded, in call order, *)
(* in the variable out; lastOp records which operation ran with which      *)
(* arguments.  hist is a history variable: it records what the parties of  *)
(* the component have been told and handed over the operations so far.     *)
(*                                                                         *)
(* ResourceComponent is modelled beside it: resourceStorage and            *)
(* resourceFiles are its two members, and each of its operations is one    *)
(* action that records itself in lastOp.  inFlight holds the calls that   *)
(* several threads make on it at the same time.                            *)
(*                                                                         *)
(* resources holds resource values (ResourceBase): their decompressed      *)
(* data, their compressed buffer with its level, and their hash.  workers  *)
(* holds the threads that compress and decompress them concurrently.       *)
(***************************************************************************)
EXTENDS Integers, Sequences, FiniteSets, TLC

\* ------------------------------------------------------------------ bounds
MaxFeatureLevel == 2    \* feature levels a remote participant may announce
MaxAnnounce == 2        \* scenes named in one received availability message
MaxChunk == 2           \* bytes in one received transport delivery
MaxRes == 2             \* resources carried by one scene update
MaxVersion == 1         \* version tags a flush may carry
MaxDest == 2            \* destinations named in one sendSceneUpdate call
MaxFlush == 2           \* numbered sendSceneUpdate calls recorded in the history
MaxStream == 3          \* bytes of one decoder session recorded in the history
MaxRefs == 2            \* ManagedResource handles of one hash held at a time
MaxBatch == 2           \* hashes in one resolveResources call
MaxCalls == 2           \* calls one thread makes on the resource component
MaxWork == 3            \* compress and decompress calls the threads make in all

\* --------------------------------------------------------- program values
MyID == 0               \* m_myID, the local participant
FeatureLevel == 1       \* m_featureLevel, the local feature level
Broadcast == -1         \* destination of a broadcast* call: every remote participant

\* The participants and scene ids of the model.  The component treats every
\* remote participant alike and every scene id alike.
Remotes == {1, 2}
Participants == {MyID} \cup Remotes
Scenes == {1, 2}
LocalScenes == {1}          \* the scene ids the local client creates
SceneOrder == <<1, 2>>      \* the order in which the scene tables are walked
FeatureLevels == 1..MaxFeatureLevel
PublicationModes == {"LocalOnly", "LocalAndRemote"}

VARIABLES
    sceneRendererHandler,     \* m_sceneRendererHandler # nullptr
    connected,                \* m_connected
    locallyPublishedScenes,   \* m_locallyPublishedScenes: scene id -> SceneInfo
    clientSceneLogicMap,      \* m_clientSceneLogicMap: scene id -> scene logic
    remoteScenes,             \* m_remoteScenes: scene id -> ReceivedScene
    failedSession,            \* history: the decoder instance of the scene has returned Failed
    out,                      \* calls made on collaborators by the last operation
    lastOp,                   \* the last operation and its arguments
    hist,                     \* history: notices and updates handed out so far
    resourceStorage,          \* m_resourceStorage: hash -> entry of the resource storage
    resourceFiles,            \* m_resourceFiles: the registry of resource files
    inFlight,                 \* the calls of concurrent threads on the resource component
    resources,                \* the resource values (ResourceBase objects) by their index
    workers,                  \* the threads that compress and decompress resource values
    commandBuffer             \* the SceneCommandBuffer of a scene and the threads that use it

vars == <<sceneRendererHandler, connected, locallyPublishedScenes, clientSceneLogicMap,
          remoteScenes, failedSession, out, lastOp, hist, resourceStorage, resourceFiles,
          inFlight, resources, workers, commandBuffer>>

\* ------------------------------------------------------------ value types
\* SceneInfo{sceneID, publicationMode}; the friendly name is only logged.
SceneInfo(sceneId, mode) == [sceneID |-> sceneId, mode |-> mode]
NoInfo == [sceneID |-> 0, mode |-> "None"]

\* SceneUpdate: kind tells a full snapshot from an increment, ver is the
\* version tag of the flush, res the resources it carries, comp whether
\* compress(Realtime) has run on them, data the decoded stream records.
NoUpdate == [kind |-> "none", ver |-> 0, res |-> <<>>, comp |-> "None", data |-> <<>>]
SceneUpdate(kind, ver, res) == [kind |-> kind, ver |-> ver, res |-> res, comp |-> "None", data |-> <<>>]

\* One call on a collaborator.
Call(on, k, to, scene, infos, upd) ==
    [on |-> on, k |-> k, to |-> to, scene |-> scene, infos |-> infos, upd |-> upd, level |-> "-"]
RendererCall(k, provider, scene, infos, upd) == Call("renderer", k, provider, scene, infos, upd)
NetCall(k, to, scene, infos, upd) == Call("net", k, to, scene, infos, upd)
ResourceCall(res, level) ==
    [on |-> "resource", k |-> "compress", to |-> MyID, scene |-> res, infos |-> <<>>,
     upd |-> NoUpdate, level |-> level]

NoOp == [op |-> "init", who |-> 0, scene |-> 0, mode |-> "-", infos |-> <<>>, toVec |-> <<>>,
         upd |-> NoUpdate, fl |-> 0, data |-> <<>>, result |-> "-", attach |-> FALSE]

\* Sequences over S of length at most n.
RECURSIVE SeqsUpTo(_, _)
SeqsUpTo(S, n) ==
    IF n = 0 THEN {<<>>}
    ELSE LET shorter == SeqsUpTo(S, n - 1)
         IN shorter \cup {Append(q, x) : q \in {r \in shorter : Len(r) = n - 1}, x \in S}

Range(q) == {q[i] : i \in DOMAIN q}
Remove(q, x) == SelectSeq(q, LAMBDA y : y # x)
Count(q, P(_)) == Cardinality({i \in DOMAIN q : P(q[i])})

\* ------------------------------------------- update stream deserializer
\* SceneUpdateStreamDeserializer: a record on the stream is one byte that
\* declares the length of its payload, then the payload.  buf holds the
\* bytes of a record that is not complete yet; failed is sticky.
MaxRecordLen == 1       \* largest declared length that is accepted
Bytes == 0..(MaxRecordLen + 1)
NullDeserializer == [null |-> TRUE, buf |-> <<>>, failed |-> FALSE]
FreshDeserializer == [null |-> FALSE, buf |-> <<>>, failed |-> FALSE]

RECURSIVE parseRecords(_, _)
parseRecords(bytes, records) ==
    IF bytes = <<>> THEN [failed |-> FALSE, rest |-> <<>>, records |-> records]
    ELSE IF Head(bytes) > MaxRecordLen THEN [failed |-> TRUE, rest |-> <<>>, records |-> <<>>]
    ELSE IF Len(bytes) >= 1 + Head(bytes)
         THEN parseRecords(SubSeq(bytes, 2 + Head(bytes), Len(bytes)),
                           Append(records, SubSeq(bytes, 2, 1 + Head(bytes))))
         ELSE [failed |-> FALSE, rest |-> bytes, records |-> records]

\* processData(data): the result type, the decoded records and the decoder afterwards.
processData(deser, data) ==
    IF deser.failed
    THEN [result |-> "Failed", records |-> <<>>, deser |-> deser]
    ELSE LET p == parseRecords(deser.buf \o data, <<>>)
         IN IF p.failed
            THEN [result |-> "Failed", records |-> <<>>,
                  deser |-> [deser EXCEPT !.failed = TRUE, !.buf = <<>>]]
            ELSE IF p.records = <<>>
                 THEN [result |-> "Empty", records |-> <<>>, deser |-> [deser EXCEPT !.buf = p.rest]]
                 ELSE [result |-> "HasData", records |-> p.records,
                       deser |-> [deser EXCEPT !.buf = p.rest]]

\* ReceivedScene{info, provider, sceneUpdateDeserializer}; NoScene: no entry.
ReceivedScene(info, provider, deser) ==
    [tracked |-> TRUE, info |-> info, provider |-> provider, deser |-> deser]
NoScene == [tracked |-> FALSE, info |-> NoInfo, provider |-> MyID, deser |-> NullDeserializer]

\* ------------------------------------------------- ISceneGraphSender part
\* SceneGraphComponent::sendCreateScene.  The assertion of line 119 states
\* the callers' obligation; it is compiled out of a release build, which
\* sends the message all the same.
sendCreateScene(to, sceneInfo) ==
    LET info == locallyPublishedScenes[sceneInfo.sceneID]
    IN IF MyID = to
       THEN IF sceneRendererHandler
            THEN IF info # NoInfo
                 THEN <<RendererCall("handleInitializeScene", MyID, sceneInfo.sceneID, <<info>>, NoUpdate)>>
                 ELSE <<RendererCall("handleInitializeScene", MyID, sceneInfo.sceneID, <<sceneInfo>>, NoUpdate)>>
            ELSE <<>>
       ELSE <<NetCall("sendInitializeScene", to, sceneInfo.sceneID, <<>>, NoUpdate)>>

\* resource->compress(CompressionLevel::Realtime) on every resource of the update.
compressResources(upd) == [i \in 1..Len(upd.res) |-> ResourceCall(upd.res[i], "Realtime")]

\* SceneUpdateSerializer(sceneUpdate, ...): the update as put on the wire.
SceneUpdateSerializer(upd) == [upd EXCEPT !.kind = "serialized-" \o upd.kind, !.comp = "Realtime"]

\* The loop without the test for the local participant: every destination
\* is served through the communication system.
RECURSIVE sendSceneUpdateLoop_NoLocalTest(_, _, _, _)
sendSceneUpdateLoop_NoLocalTest(toVec, upd, sceneId, alreadyCompressed) ==
    IF toVec = <<>> THEN <<>>
    ELSE (IF ~alreadyCompressed THEN compressResources(upd) ELSE <<>>)
         \o <<NetCall("sendSceneUpdate", Head(toVec), sceneId, <<>>, SceneUpdateSerializer(upd))>>
         \o sendSceneUpdateLoop_NoLocalTest(Tail(toVec), upd, sceneId, TRUE)

\* The loop that never sets alreadyCompressed: compression per destination.
RECURSIVE sendSceneUpdateLoop_CompressEach(_, _, _, _)
sendSceneUpdateLoop_CompressEach(toVec, upd, sceneId, alreadyCompressed) ==
    IF toVec = <<>> THEN <<>>
    ELSE IF MyID = Head(toVec)
         THEN sendSceneUpdateLoop_CompressEach(Tail(toVec), upd, sceneId, alreadyCompressed)
         ELSE compressResources(upd)
              \o <<NetCall("sendSceneUpdate", Head(toVec), sceneId, <<>>, SceneUpdateSerializer(upd))>>
              \o sendSceneUpdateLoop_CompressEach(Tail(toVec), upd, sceneId, alreadyCompressed)

\* The loop that serves the first non-local destination only.
RECURSIVE sendSceneUpdateLoop_FirstRemoteOnly(_, _, _, _)
sendSceneUpdateLoop_FirstRemoteOnly(toVec, upd, sceneId, alreadyCompressed) ==
    IF toVec = <<>> THEN <<>>
    ELSE IF MyID = Head(toVec) \/ alreadyCompressed
         THEN sendSceneUpdateLoop_FirstRemoteOnly(Tail(toVec), upd, sceneId, alreadyCompressed)
         ELSE compressResources(upd)
              \o <<NetCall("sendSceneUpdate", Head(toVec), sceneId, <<>>, SceneUpdateSerializer(upd))>>
              \o sendSceneUpdateLoop_FirstRemoteOnly(Tail(toVec), upd, sceneId, TRUE)

\* The loop of sendSceneUpdate over toVec (lines 129-147).
RECURSIVE sendSceneUpdateLoop(_, _, _, _)
sendSceneUpdateLoop(toVec, upd, sceneId, alreadyCompressed) ==
    IF toVec = <<>> THEN <<>>
    ELSE IF MyID = Head(toVec)
         THEN sendSceneUpdateLoop(Tail(toVec), upd, sceneId, alreadyCompressed)
         ELSE (IF ~alreadyCompressed THEN compressResources(upd) ELSE <<>>)
              \o <<NetCall("sendSceneUpdate", Head(toVec), sceneId, <<>>, SceneUpdateSerializer(upd))>>
              \o sendSceneUpdateLoop(Tail(toVec), upd, sceneId, TRUE)

\* SceneGraphComponent::sendSceneUpdate.  The local handler gets the update
\* object itself, moved, after the loop: its resources have been compressed
\* in place when the loop met a remote destination.
sendSceneUpdate(toVec, upd, sceneId) ==
    LET sendToSelf == MyID \in Range(toVec)
        toRemote == \E i \in DOMAIN toVec : toVec[i] # MyID
        moved == IF toRemote THEN [upd EXCEPT !.comp = "Realtime"] ELSE upd
    IN sendSceneUpdateLoop(toVec, upd, sceneId, FALSE)
       \o (IF sendToSelf /\ sceneRendererHandler
           THEN <<RendererCall("handleSceneUpdate", MyID, sceneId, <<>>, moved)>>
           ELSE <<>>)

\* sendPublishScene that broadcasts whatever the publication mode.
sendPublishScene_AnyMode(sceneInfo) ==
    [calls |-> (IF sceneRendererHandler
                THEN <<RendererCall("handleNewSceneAvailable", MyID, sceneInfo.sceneID, <<sceneInfo>>, NoUpdate)>>
                ELSE <<>>)
               \o (IF connected
                   THEN <<NetCall("broadcastNewScenesAvailable", Broadcast, 0, <<sceneInfo>>, NoUpdate)>>
                   ELSE <<>>),
     published |-> [locallyPublishedScenes EXCEPT ![sceneInfo.sceneID] = sceneInfo]]

\* sendPublishScene that tells the handler only while connected.
sendPublishScene_HandlerWhenConnected(sceneInfo) ==
    [calls |-> (IF sceneRendererHandler /\ connected
                THEN <<RendererCall("handleNewSceneAvailable", MyID, sceneInfo.sceneID, <<sceneInfo>>, NoUpdate)>>
                ELSE <<>>)
               \o (IF sceneInfo.mode # "LocalOnly" /\ connected
                   THEN <<NetCall("broadcastNewScenesAvailable", Broadcast, 0, <<sceneInfo>>, NoUpdate)>>
                   ELSE <<>>),
     published |-> [locallyPublishedScenes EXCEPT ![sceneInfo.sceneID] = sceneInfo]]

\* SceneGraphComponent::sendPublishScene: the calls made and the new
\* m_locallyPublishedScenes.
sendPublishScene(sceneInfo) ==
    [calls |-> (IF sceneRendererHandler
                THEN <<RendererCall("handleNewSceneAvailable", MyID, sceneInfo.sceneID, <<sceneInfo>>, NoUpdate)>>
                ELSE <<>>)
               \o (IF sceneInfo.mode # "LocalOnly" /\ connected
                   THEN <<NetCall("broadcastNewScenesAvailable", Broadcast, 0, <<sceneInfo>>, NoUpdate)>>
                   ELSE <<>>),
     published |-> [locallyPublishedScenes EXCEPT ![sceneInfo.sceneID] = sceneInfo]]

\* SceneGraphComponent::sendUnpublishScene (the scene is in the table: line 171).
sendUnpublishScene(sceneId, mode) ==
    LET info == locallyPublishedScenes[sceneId]
    IN [calls |-> (IF sceneRendererHandler
                   THEN <<RendererCall("handleSceneBecameUnavailable", MyID, sceneId, <<>>, NoUpdate)>>
                   ELSE <<>>)
                  \o (IF mode # "LocalOnly" /\ connected
                      THEN <<NetCall("broadcastScenesBecameUnavailable", Broadcast, 0, <<info>>, NoUpdate)>>
                      ELSE <<>>),
        published |-> [locallyPublishedScenes EXCEPT ![sceneId] = NoInfo]]

\* The entries of m_locallyPublishedScenes whose mode is not LocalOnly
\* (lines 222-226 and 254-261), in scene id order.
remotelyPublishedScenes ==
    SelectSeq([i \in DOMAIN SceneOrder |-> locallyPublishedScenes[SceneOrder[i]]],
              LAMBDA i : i # NoInfo /\ i.mode # "LocalOnly")

\* ------------------------------------------------- per-scene scene logic
\* ClientSceneLogicBase: publication mode, subscribers waiting for the
\* scene (pending) and active subscribers, each in subscription order.
NoLogic == [exists |-> FALSE, mode |-> "Unpublished", waiting |-> <<>>, active |-> <<>>]
NewLogic == [exists |-> TRUE, mode |-> "Unpublished", waiting |-> <<>>, active |-> <<>>]

isPublished(logic) == logic.mode # "Unpublished"

getWaitingAndActiveSubscribers(logic) == logic.waiting \o logic.active

\* addSubscriber: a participant is in exactly one of not subscribed, pending, active.
addSubscriber(logic, p) ==
    IF p \in Range(logic.waiting) \cup Range(logic.active)
    THEN logic
    ELSE [logic EXCEPT !.waiting = Append(@, p)]

removeSubscriber(logic, p) ==
    [logic EXCEPT !.waiting = Remove(@, p), !.active = Remove(@, p)]

\* A scene in LocalOnly mode is never transmitted to a non-local participant.
mayReceive(logic, p) == p = MyID \/ logic.mode = "LocalAndRemote"

RECURSIVE sendCreateSceneToAll(_, _)
sendCreateSceneToAll(toVec, sceneInfo) ==
    IF toVec = <<>> THEN <<>>
    ELSE sendCreateScene(Head(toVec), sceneInfo) \o sendCreateSceneToAll(Tail(toVec), sceneInfo)

\* flushSceneActions: active subscribers get the increment; pending
\* subscribers are initialized, get the full scene and become active.
flushSceneActions(sceneId, versionTag, res) ==
    LET logic == clientSceneLogicMap[sceneId]
        newcomers == SelectSeq(logic.waiting, LAMBDA p : mayReceive(logic, p))
        staying == SelectSeq(logic.waiting, LAMBDA p : ~mayReceive(logic, p))
        info == SceneInfo(sceneId, logic.mode)
    IN IF ~isPublished(logic)
       THEN [calls |-> <<>>, logic |-> logic]
       ELSE [calls |-> (IF logic.active # <<>>
                        THEN sendSceneUpdate(logic.active, SceneUpdate("delta", versionTag, res), sceneId)
                        ELSE <<>>)
                       \o (IF newcomers # <<>>
                           THEN sendCreateSceneToAll(newcomers, info)
                                \o sendSceneUpdate(newcomers, SceneUpdate("full", versionTag, res), sceneId)
                           ELSE <<>>),
             logic |-> [logic EXCEPT !.waiting = staying, !.active = @ \o newcomers]]

\* publish(mode): a scene that is already published stays as it is.
publish(sceneId, mode) ==
    LET logic == clientSceneLogicMap[sceneId]
        sent == sendPublishScene(SceneInfo(sceneId, mode))
    IN IF isPublished(logic)
       THEN [calls |-> <<>>, published |-> locallyPublishedScenes, logic |-> logic]
       ELSE [calls |-> sent.calls, published |-> sent.published,
             logic |-> [logic EXCEPT !.mode = mode]]

\* unpublish(): every subscriber is dropped and the unavailability is sent.
unpublish(sceneId) ==
    LET logic == clientSceneLogicMap[sceneId]
        sent == sendUnpublishScene(sceneId, logic.mode)
    IN IF ~isPublished(logic)
       THEN [calls |-> <<>>, published |-> locallyPublishedScenes, logic |-> logic]
       ELSE [calls |-> sent.calls, published |-> sent.published,
             logic |-> [logic EXCEPT !.mode = "Unpublished", !.waiting = <<>>, !.active = <<>>]]

\* ------------------------------------------------------ resource component
\* The content hashes of the model; the component treats every hash alike.
Hashes == {1, 2}
HashOrder == <<1, 2>>       \* the order in which the contents of a file are walked
FileHandles == {1, 2}       \* the handles the registry gives out, in this order

\* What ResourcePersistation::RetrieveResourceFromStream does with an entry
\* of a file: it delivers the resource, throws, or delivers none.
ReadOutcomes == {"resource", "exception", "null"}

\* An entry of the resource storage: resource tells whether the payload is
\* live, refCount counts the ManagedResource handles, hashUsage tells
\* whether a scene object holds a ResourceHashUsage, info tells whether
\* storeResourceInfo has recorded the metadata of the hash.
NoEntry ==
    [resource |-> FALSE, refCount |-> 0, hashUsage |-> FALSE, deletionAllowed |-> FALSE,
     info |-> FALSE]

\* ResourceStorage::getResource: a handle when the payload is live, the
\* empty handle otherwise; the storage changes only by the handle it gives.
getResource(st, h) ==
    IF st[h].resource
    THEN [handle |-> TRUE, storage |-> [st EXCEPT ![h].refCount = @ + 1]]
    ELSE [handle |-> FALSE, storage |-> st]

\* ResourceStorage::manageResource: one live payload per hash, one more
\* handle; a payload that is attached brings its deletion-allowed flag.
manageResource(st, h, deletionAllowed) ==
    IF st[h].resource
    THEN [st EXCEPT ![h].refCount = @ + 1]
    ELSE [st EXCEPT ![h].resource = TRUE, ![h].refCount = 1,
                    ![h].deletionAllowed = deletionAllowed]

\* The entry once nothing holds it: only the recorded metadata is left.
forgotten(e) == [NoEntry EXCEPT !.info = e.info]
\* The entry once its payload is dropped while a hash usage holds it.
unloaded(e) == [forgotten(e) EXCEPT !.hashUsage = TRUE]

\* A release that only counts the handle down.
releaseResource_KeepsPayload(st, h) == [st EXCEPT ![h].refCount = @ - 1]

\* A ManagedResource handle is released: the payload outlives its last
\* handle only while a hash usage holds the entry and deletion is not allowed.
releaseResource(st, h) ==
    IF st[h].refCount > 1 THEN [st EXCEPT ![h].refCount = @ - 1]
    ELSE IF ~st[h].hashUsage THEN [st EXCEPT ![h] = forgotten(@)]
    ELSE IF st[h].deletionAllowed THEN [st EXCEPT ![h] = unloaded(@)]
    ELSE [st EXCEPT ![h].refCount = 0]

\* A ResourceHashUsage is released.
releaseHashUsage(st, h) ==
    IF st[h].refCount > 0 THEN [st EXCEPT ![h].hashUsage = FALSE]
    ELSE [st EXCEPT ![h] = forgotten(@)]

\* In use only where a handle is held: hash usages are overlooked.
isFileResourceInUseAnywhereElse_HandlesOnly(st, h) == st[h].refCount > 0

isFileResourceInUseAnywhereElse(st, h) == st[h].refCount > 0 \/ st[h].hashUsage
markDeletionDisallowed(st, h) == [st EXCEPT ![h].deletionAllowed = FALSE]
storeResourceInfo(st, h) == [st EXCEPT ![h].info = TRUE]

\* ResourceFilesRegistry: next is the handle the next registration gets,
\* file[f] the registered table of contents of handle f.
NoFile == [registered |-> FALSE, toc |-> {}]
NoFiles == [next |-> 1, file |-> [f \in FileHandles |-> NoFile]]
registerResourceFile(files, toc) ==
    [files EXCEPT !.next = @ + 1, !.file[files.next] = [registered |-> TRUE, toc |-> toc]]
unregisterResourceFile(files, f) == [files EXCEPT !.file[f] = NoFile]
hasResourceFile(files, f) == f \in FileHandles /\ files.file[f].registered
\* ResourceFilesRegistry::getEntry finds the hash in some registered file.
getEntry(files, h) == \E f \in FileHandles : files.file[f].registered /\ h \in files.file[f].toc

\* loadResource that hands the payload over with deletion not allowed.
loadResource_DeletionDisallowed(st, files, h, read) ==
    IF ~getEntry(files, h) THEN [handle |-> FALSE, storage |-> st, stat |-> 0]
    ELSE IF read \in {"exception", "null"} THEN [handle |-> FALSE, storage |-> st, stat |-> 0]
    ELSE [handle |-> TRUE, storage |-> manageResource(st, h, FALSE), stat |-> 1]

\* loadResource that counts the load before it reads the entry.
loadResource_CountsBeforeRead(st, files, h, read) ==
    IF ~getEntry(files, h) THEN [handle |-> FALSE, storage |-> st, stat |-> 0]
    ELSE IF read \in {"exception", "null"} THEN [handle |-> FALSE, storage |-> st, stat |-> 1]
    ELSE [handle |-> TRUE, storage |-> manageResource(st, h, TRUE), stat |-> 1]

\* ResourceComponent::loadResource: the storage afterwards, whether a
\* handle was returned and by how much statResourcesLoadedFromFileNumber
\* was counted up; read is what reading the entry of the file yields.
loadResource(st, files, h, read) ==
    IF ~getEntry(files, h) THEN [handle |-> FALSE, storage |-> st, stat |-> 0]
    ELSE IF read \in {"exception", "null"} THEN [handle |-> FALSE, storage |-> st, stat |-> 0]
    ELSE [handle |-> TRUE, storage |-> manageResource(st, h, TRUE), stat |-> 1]

\* ResourceComponent::resolveResources from position i on: the handles
\* returned, the hashes logged as failed, the hashes loaded from a file.
RECURSIVE resolveLoop(_, _, _, _, _)
resolveLoop(acc, files, hashes, reads, i) ==
    IF i > Len(hashes) THEN acc
    ELSE LET hash == hashes[i]
             got == getResource(acc.storage, hash)
             load == loadResource(acc.storage, files, hash, reads[i])
             mr == IF got.handle THEN got ELSE load
         IN resolveLoop([storage |-> mr.storage,
                         stat |-> acc.stat + (IF got.handle THEN 0 ELSE load.stat),
                         result |-> IF mr.handle THEN Append(acc.result, hash) ELSE acc.result,
                         failed |-> IF mr.handle THEN acc.failed ELSE Append(acc.failed, hash),
                         loaded |-> IF mr.handle /\ ~got.handle
                                    THEN acc.loaded \cup {hash} ELSE acc.loaded],
                        files, hashes, reads, i + 1)

\* resolveResources that gives up the whole batch when one hash fails.
resolveResources_AbortOnFailure(st, files, hashes, reads) ==
    LET done == resolveLoop([storage |-> st, stat |-> 0, result |-> <<>>, failed |-> <<>>,
                             loaded |-> {}],
                            files, hashes, reads, 1)
    IN IF done.failed = <<>> THEN done
       ELSE [storage |-> st, stat |-> 0, result |-> <<>>, failed |-> done.failed, loaded |-> {}]

resolveResources(st, files, hashes, reads) ==
    resolveLoop([storage |-> st, stat |-> 0, result |-> <<>>, failed |-> <<>>, loaded |-> {}],
                files, hashes, reads, 1)

\* ResourceComponent::loadResourceFromFile over the contents of the file
\* from position i of the walk on; the handle res of an entry is released
\* at the end of its turn.
RECURSIVE loadFromFileLoop(_, _, _, _, _)
loadFromFileLoop(acc, files, content, reads, i) ==
    IF i > Len(HashOrder) THEN acc
    ELSE LET id == HashOrder[i]
             st == acc.storage
             load == IF st[id].resource THEN [handle |-> FALSE, storage |-> st, stat |-> 0]
                     ELSE loadResource(st, files, id, reads[id])
             marked == markDeletionDisallowed(load.storage, id)
         IN IF id \in content /\ isFileResourceInUseAnywhereElse(st, id)
            THEN loadFromFileLoop(
                     [storage |-> IF load.handle THEN releaseResource(marked, id) ELSE marked,
                      stat |-> acc.stat + load.stat,
                      loaded |-> IF load.handle THEN acc.loaded \cup {id} ELSE acc.loaded],
                     files, content, reads, i + 1)
            ELSE loadFromFileLoop(acc, files, content, reads, i + 1)

\* The operation of the resource component that ran last: its arguments,
\* whether each read it was given delivers a resource, the handles it
\* returned, the hashes it logged as failed and those it loaded from a file;
\* stat is by how much it counted statResourcesLoadedFromFileNumber up.
delivered(read) == read = "resource"
ResourceOp(op, hashes, handle, reads, result, failed, loaded) ==
    [op |-> op, hashes |-> hashes, handle |-> handle, reads |-> reads, result |-> result,
     failed |-> failed, loaded |-> loaded, stat |-> 0]

\* ------------------------------------------------------- resource value
\* ResourceBase: a blob of decompressed bytes, a compressed buffer of them,
\* and a content hash.  The class itself is outside the translated sources;
\* its tests (ResourceTest.cpp) fix what is observable of it.

\* IResource::CompressionLevel, ordered None < Realtime < Offline.
LevelNone == 0
Realtime == 1
Offline == 2
CompressionLevel == {LevelNone, Realtime, Offline}

\* A blob is a sequence of runs: n bytes of value b, adjacent runs of
\* different values.  The blobs of the tests: one byte, 1000 bytes (the
\* largest that is not compressed), 1001 bytes (the smallest that is), and
\* 2048 bytes whose first byte differs.
NoData == <<>>
Run(n, b) == [n |-> n, b |-> b]
ResourceBlobs ==
    { <<Run(1, 0)>>, <<Run(1000, 0)>>, <<Run(1001, 0)>>, <<Run(1, 1), Run(2047, 0)>> }

RECURSIVE sizeOf(_)
sizeOf(blob) == IF blob = <<>> THEN 0 ELSE Head(blob).n + sizeOf(Tail(blob))

\* Data of at most this many bytes is never compressed.
CompressionThreshold == 1000

\* The longest run one token of the compressed buffer encodes: the higher
\* level looks further and gives the smaller output.
window(level) == IF level = Offline THEN 4096 ELSE 512

\* A compressed buffer is a sequence of tokens <<byte, count>>.
NoBuffer == <<>>
RECURSIVE tokensOfRun(_, _, _)
tokensOfRun(n, b, w) ==
    IF n <= w THEN << <<b, n>> >> ELSE << <<b, w>> >> \o tokensOfRun(n - w, b, w)

RECURSIVE compressBuffer(_, _)
compressBuffer(blob, level) ==
    IF blob = <<>> THEN <<>>
    ELSE tokensOfRun(Head(blob).n, Head(blob).b, window(level))
             \o compressBuffer(Tail(blob), level)

\* Decoding that makes one run of every token.
RECURSIVE expand_RunPerToken(_, _)
expand_RunPerToken(tokens, blob) ==
    IF tokens = <<>> THEN blob
    ELSE expand_RunPerToken(Tail(tokens), Append(blob, Run(Head(tokens)[2], Head(tokens)[1])))

RECURSIVE expand(_, _)
expand(tokens, blob) ==
    IF tokens = <<>> THEN blob
    ELSE LET tok == Head(tokens)
             last == Len(blob)
         IN IF last > 0 /\ blob[last].b = tok[1]
            THEN expand(Tail(tokens), [blob EXCEPT ![last].n = @ + tok[2]])
            ELSE expand(Tail(tokens), Append(blob, Run(tok[2], tok[1])))

decompressBuffer(tokens) == expand(tokens, <<>>)

\* ResourceContentHash.  The hash of a resource is computed over its type,
\* its serialized metadata and its blob; the name is no part of it.
InvalidHash == <<>>
GivenHashes == { <<"given", 1234568>> }
hashOf(typeID, metadata, blob) == <<"computed", typeID, metadata, blob>>

\* A resource value.  hash is the hash that was set with the data, or
\* InvalidHash; level is the level of the compressed buffer.  builtFrom is
\* history: the blob whose compressed buffer the value was built from.
ResourceTypes == {"EResourceType_Invalid", "EResourceType_Effect"}
Metadata == {1, 2}
ResourceNames == {"", "some name"}
Values == {1, 2}
EmptyResource(typeID, metadata, name) ==
    [typeID |-> typeID, metadata |-> metadata, name |-> name, data |-> NoData,
     compressed |-> NoBuffer, level |-> LevelNone, decompressedSize |-> 0,
     hash |-> InvalidHash, builtFrom |-> NoData]

isCompressedAvailable(res) == res.compressed # NoBuffer
isDeCompressedAvailable(res) == res.data # NoData

\* getHash that hashes the name with the content.
getHash_CoversName(res) ==
    IF res.hash # InvalidHash THEN res.hash
    ELSE IF isDeCompressedAvailable(res)
         THEN <<"computed", res.typeID, res.metadata, res.data, res.name>>
    ELSE InvalidHash

\* getHash(): the hash that was set, else the hash of the content, else
\* Invalid.
getHash(res) ==
    IF res.hash # InvalidHash THEN res.hash
    ELSE IF isDeCompressedAvailable(res) THEN hashOf(res.typeID, res.metadata, res.data)
    ELSE InvalidHash

\* setResourceData that drops the compressed buffer but keeps its level.
setResourceData_KeepsLevel(res, blob, hash) ==
    [res EXCEPT !.data = blob, !.decompressedSize = sizeOf(blob), !.compressed = NoBuffer,
                !.hash = hash, !.builtFrom = NoData]

\* setResourceData(blob, hash): hash is InvalidHash when none is given.
setResourceData(res, blob, hash) ==
    [res EXCEPT !.data = blob, !.decompressedSize = sizeOf(blob), !.compressed = NoBuffer,
                !.level = LevelNone, !.hash = hash, !.builtFrom = NoData]

\* setCompressedResourceData(buffer, level, decompressedSize, hash).
setCompressedResourceData(res, buffer, level, size, hash) ==
    [res EXCEPT !.data = NoData, !.compressed = buffer, !.level = level,
                !.decompressedSize = size, !.hash = hash]

\* decompress(): fills the decompressed data from the compressed buffer
\* when it is missing.
decompress(res) ==
    IF ~isDeCompressedAvailable(res) /\ isCompressedAvailable(res)
    THEN [res EXCEPT !.data = decompressBuffer(res.compressed)]
    ELSE res

\* compress that recomputes the buffer for every level but the cached one.
compress_AnyOtherLevel(res, level) ==
    LET have == decompress(res)
    IN IF level # res.level /\ level # LevelNone /\ sizeOf(have.data) > CompressionThreshold
       THEN [have EXCEPT !.compressed = compressBuffer(have.data, level), !.level = level]
       ELSE res

\* compress that takes data of exactly the threshold size as well.
compress_FromThreshold(res, level) ==
    LET have == decompress(res)
    IN IF level > res.level /\ sizeOf(have.data) >= CompressionThreshold
       THEN [have EXCEPT !.compressed = compressBuffer(have.data, level), !.level = level]
       ELSE res

\* compress(level): only for a level above the one of the buffer, and only
\* for data above the threshold.
compress(res, level) ==
    LET have == decompress(res)
    IN IF level > res.level /\ sizeOf(have.data) > CompressionThreshold
       THEN [have EXCEPT !.compressed = compressBuffer(have.data, level), !.level = level]
       ELSE res

\* The threads that call the resource component at the same time.
Threads == {1, 2}

\* call[t]: where thread t is in its call (idle, about to enter
\*   ResourceStorage::manageResource, or holding the handle it got), the
\*   IResource object obj it brought and the object its handle refers to.
\* payload[h]: the IResource object that is the live payload of hash h.
\* objects[h]: the IResource objects of hash h that exist.
NoObject == <<>>
NoCall ==
    [pc |-> "idle", n |-> 0, op |-> "-", hash |-> 0, deletionAllowed |-> FALSE,
     obj |-> NoObject, handle |-> NoObject]
NoCalls ==
    [call |-> [t \in Threads |-> NoCall],
     payload |-> [h \in Hashes |-> NoObject],
     objects |-> [h \in Hashes |-> {}]]

\* lock[v]: the thread that holds the compression lock of value v, or 0.
\* thread[t]: where thread t is, the call it is in, the value of the call
\*   and that value as the call found it.
\* log[t]: history, the calls thread t has made, in its program order.
Idle == [pc |-> "idle", call |-> "-", level |-> LevelNone, value |-> 0, entry |-> <<>>]
NoWorkers ==
    [lock |-> [v \in Values |-> 0],
     thread |-> [t \in Threads |-> Idle],
     log |-> [t \in Threads |-> <<>>]]

\* buffer: m_buffer, the commands enqueued and not yet taken by execute.
\* local, pc: the commands execute has taken and not yet visited, and
\*   whether an execute is running.
\* enq[t]: history, the commands thread t has enqueued, in its order.
\* mark[t]: history, how many commands thread t had enqueued when the
\*   last execute took the buffer.
\* visited: history, the calls made on the visitor.
NoCommands ==
    [buffer |-> <<>>, local |-> <<>>, pc |-> "idle",
     enq |-> [t \in Threads |-> <<>>],
     mark |-> [t \in Threads |-> 0],
     visited |-> <<>>]

ResourceInit ==
    /\ resourceStorage = [h \in Hashes |-> NoEntry]
    /\ resourceFiles = NoFiles
    /\ inFlight = NoCalls
    /\ resources = [v \in Values |-> EmptyResource("EResourceType_Invalid", 1, "")]
    /\ workers = NoWorkers
    /\ commandBuffer = NoCommands

ResourcesUntouched ==
    UNCHANGED <<resourceStorage, resourceFiles, inFlight, resources, workers, commandBuffer>>

\* ------------------------------------------------------ history variable
\* told[s]: the parties that have been told scene s is available and have
\*   not been told since that it is unavailable (a party that went away
\*   counts no longer).
\* first[s][p]: the kind of the first update of scene s handed to p since p
\*   subscribed, "-" while p has got none.
\* role, n, sent, attached, got: the numbered sendSceneUpdate calls of one
\*   scene: per participant the updates that named it, those that named the
\*   local participant while a handler was attached, and the updates handed
\*   over to it.
\* stream, fwd: the bytes given to the current decoder of one remote scene
\*   and the records forwarded to the handler from it.
\* handed[s]: the events handed to the event consumer that is registered
\*   for scene s, since it was registered.
NoHist ==
    [told |-> [s \in Scenes |-> {}],
     first |-> [s \in Scenes |-> [p \in Participants |-> "-"]],
     role |-> "none", n |-> 0,
     sent |-> [p \in Participants |-> <<>>],
     attached |-> <<>>,
     got |-> [p \in Participants |-> <<>>],
     stream |-> <<>>, fwd |-> <<>>,
     handed |-> [s \in Scenes |-> <<>>]]

\* No operation of the step is observed.
Quiet == UNCHANGED hist /\ ResourcesUntouched

scenesNamed(infos) == {infos[i].sceneID : i \in DOMAIN infos}

\* The parties that went away with the step: a disconnected participant,
\* a detached handler.
departed(told) ==
    LET gone == IF lastOp'.op = "participantHasDisconnected" THEN {lastOp'.who}
                ELSE IF lastOp'.op = "setSceneRendererHandler" /\ ~lastOp'.attach THEN {MyID}
                ELSE {}
    IN [s \in Scenes |-> told[s] \ gone]

\* told after the calls: availability adds the parties a call reaches,
\* unavailability removes them; a broadcast reaches every remote participant.
RECURSIVE noticesAfter(_, _)
noticesAfter(told, calls) ==
    IF calls = <<>> THEN told
    ELSE LET c == Head(calls)
             local == c.on = "renderer" /\ c.to = MyID
             after ==
                 IF local /\ c.k = "handleNewSceneAvailable"
                 THEN [told EXCEPT ![c.scene] = @ \cup {MyID}]
                 ELSE IF local /\ c.k = "handleSceneBecameUnavailable"
                 THEN [told EXCEPT ![c.scene] = @ \ {MyID}]
                 ELSE IF c.on = "net" /\ c.k = "broadcastNewScenesAvailable"
                 THEN [s \in Scenes |-> IF s \in scenesNamed(c.infos)
                                        THEN told[s] \cup Remotes ELSE told[s]]
                 ELSE IF c.on = "net" /\ c.k = "sendScenesAvailable"
                 THEN [s \in Scenes |-> IF s \in scenesNamed(c.infos)
                                        THEN told[s] \cup {c.to} ELSE told[s]]
                 ELSE IF c.on = "net" /\ c.k = "broadcastScenesBecameUnavailable"
                 THEN [s \in Scenes |-> IF s \in scenesNamed(c.infos)
                                        THEN told[s] \ Remotes ELSE told[s]]
                 ELSE told
         IN noticesAfter(after, Tail(calls))

\* The scene updates among the calls that were handed to participant p.
updatesTo(calls, s, p) ==
    SelectSeq(calls, LAMBDA c :
        /\ c.scene = s
        /\ \/ c.on = "net" /\ c.k = "sendSceneUpdate" /\ c.to = p
           \/ p = MyID /\ c.on = "renderer" /\ c.k = "handleSceneUpdate" /\ c.to = MyID)

kindOf(c) == IF c.upd.kind \in {"full", "serialized-full"} THEN "full" ELSE "delta"

\* first[s][p] after the step: forgotten when p is no subscriber of s or has
\* just subscribed, set by the first update handed to p.
firstAfter(s, p) ==
    LET before == p \in Range(clientSceneLogicMap[s].waiting) \cup Range(clientSceneLogicMap[s].active)
        after == p \in Range(clientSceneLogicMap'[s].waiting) \cup Range(clientSceneLogicMap'[s].active)
        ups == updatesTo(out', s, p)
        base == IF before /\ after THEN hist.first[s][p] ELSE "-"
    IN IF ~after THEN "-"
       ELSE IF base # "-" THEN base
       ELSE IF ups = <<>> THEN "-"
       ELSE kindOf(ups[1])

\* The notices of the step are recorded.
ObserveNotices ==
    /\ hist' = [hist EXCEPT !.told = noticesAfter(departed(hist.told), out')]
    /\ ResourcesUntouched

\* The notices and the first updates of the step are recorded.
ObserveProducer ==
    /\ hist' = [hist EXCEPT !.told = noticesAfter(departed(hist.told), out'),
                            !.first = [s \in Scenes |-> [p \in Participants |-> firstAfter(s, p)]]]
    /\ ResourcesUntouched

TypeOK ==
    /\ sceneRendererHandler \in BOOLEAN
    /\ connected \in BOOLEAN
    /\ \A s \in Scenes : locallyPublishedScenes[s] = NoInfo \/ locallyPublishedScenes[s].sceneID = s

Init ==
    /\ sceneRendererHandler = FALSE
    /\ connected = FALSE
    /\ locallyPublishedScenes = [s \in Scenes |-> NoInfo]
    /\ clientSceneLogicMap = [s \in Scenes |-> NoLogic]
    /\ remoteScenes = [s \in Scenes |-> NoScene]
    /\ failedSession = [s \in Scenes |-> FALSE]
    /\ out = <<>>
    /\ lastOp = NoOp
    /\ hist = NoHist
    /\ ResourceInit

\* --------------------------------------------- connection and life cycle
\* setSceneRendererHandler that goes on where lines 64-71 stop the caller.
SetSceneRendererHandler_Unchecked(attach) ==
    /\ sceneRendererHandler' = attach
    /\ out' = <<>>
    /\ lastOp' = [NoOp EXCEPT !.op = "setSceneRendererHandler", !.attach = attach]
    /\ UNCHANGED <<connected, locallyPublishedScenes, clientSceneLogicMap, remoteScenes,
                   failedSession>>

\* setSceneRendererHandler(handler).  Lines 64-71 make it a contract
\* violation to attach a second handler or to change the handler while a
\* remote scene is tracked.
SetSceneRendererHandler(attach) ==
    /\ ~(sceneRendererHandler /\ attach)
    /\ \A s \in Scenes : ~remoteScenes[s].tracked
    /\ sceneRendererHandler' = attach
    /\ out' = IF attach
              THEN SelectSeq([i \in DOMAIN SceneOrder |->
                                 RendererCall("handleNewSceneAvailable", MyID, SceneOrder[i],
                                              <<locallyPublishedScenes[SceneOrder[i]]>>,
                                              NoUpdate)],
                             LAMBDA c : locallyPublishedScenes[c.scene] # NoInfo)
              ELSE <<>>
    /\ clientSceneLogicMap' =
           IF attach THEN clientSceneLogicMap
           ELSE [s \in Scenes |->
                    IF locallyPublishedScenes[s] # NoInfo /\ clientSceneLogicMap[s].exists
                    THEN removeSubscriber(clientSceneLogicMap[s], MyID)
                    ELSE clientSceneLogicMap[s]]
    /\ lastOp' = [NoOp EXCEPT !.op = "setSceneRendererHandler", !.attach = attach]
    /\ UNCHANGED <<connected, locallyPublishedScenes, remoteScenes, failedSession>>

ConnectToNetwork ==
    /\ connected' = TRUE
    /\ out' = <<>>
    /\ lastOp' = [NoOp EXCEPT !.op = "connectToNetwork"]
    /\ UNCHANGED <<sceneRendererHandler, locallyPublishedScenes, clientSceneLogicMap,
                   remoteScenes, failedSession>>

\* Every subscriber is removed, the local participant too.
RECURSIVE removeSubscribers_All(_, _)
removeSubscribers_All(logic, subs) ==
    IF subs = <<>> THEN logic
    ELSE removeSubscribers_All(removeSubscriber(logic, Head(subs)), Tail(subs))

RECURSIVE removeSubscribers(_, _)
removeSubscribers(logic, subs) ==
    IF subs = <<>> THEN logic
    ELSE removeSubscribers(IF Head(subs) # MyID THEN removeSubscriber(logic, Head(subs)) ELSE logic,
                           Tail(subs))

DisconnectFromNetwork ==
    /\ out' = IF remotelyPublishedScenes # <<>>
              THEN <<NetCall("broadcastScenesBecameUnavailable", Broadcast, 0,
                             remotelyPublishedScenes, NoUpdate)>>
              ELSE <<>>
    /\ clientSceneLogicMap' =
           [s \in Scenes |->
               IF clientSceneLogicMap[s].exists
               THEN removeSubscribers(clientSceneLogicMap[s],
                                      getWaitingAndActiveSubscribers(clientSceneLogicMap[s]))
               ELSE clientSceneLogicMap[s]]
    /\ connected' = FALSE
    /\ lastOp' = [NoOp EXCEPT !.op = "disconnectFromNetwork"]
    /\ UNCHANGED <<sceneRendererHandler, locallyPublishedScenes, remoteScenes, failedSession>>

NewParticipantHasConnected(p) ==
    /\ out' = IF remotelyPublishedScenes # <<>>
              THEN <<NetCall("sendScenesAvailable", p, 0, remotelyPublishedScenes, NoUpdate)>>
              ELSE <<>>
    /\ lastOp' = [NoOp EXCEPT !.op = "newParticipantHasConnected", !.who = p]
    /\ UNCHANGED <<sceneRendererHandler, connected, locallyPublishedScenes, clientSceneLogicMap,
                   remoteScenes, failedSession>>

\* ------------------------------------------------ ISceneGraphProvider part
HandleCreateScene(s) ==
    /\ ~clientSceneLogicMap[s].exists
    /\ clientSceneLogicMap' = [clientSceneLogicMap EXCEPT ![s] = NewLogic]
    /\ out' = <<>>
    /\ lastOp' = [NoOp EXCEPT !.op = "handleCreateScene", !.scene = s]
    /\ UNCHANGED <<sceneRendererHandler, connected, locallyPublishedScenes, remoteScenes, failedSession>>

HandlePublishScene(s, mode) ==
    /\ clientSceneLogicMap[s].exists
    /\ LET r == publish(s, mode)
       IN /\ out' = r.calls
          /\ locallyPublishedScenes' = r.published
          /\ clientSceneLogicMap' = [clientSceneLogicMap EXCEPT ![s] = r.logic]
    /\ lastOp' = [NoOp EXCEPT !.op = "handlePublishScene", !.scene = s, !.mode = mode]
    /\ UNCHANGED <<sceneRendererHandler, connected, remoteScenes, failedSession>>

HandleUnpublishScene(s) ==
    /\ clientSceneLogicMap[s].exists
    /\ LET r == unpublish(s)
       IN /\ out' = r.calls
          /\ locallyPublishedScenes' = r.published
          /\ clientSceneLogicMap' = [clientSceneLogicMap EXCEPT ![s] = r.logic]
    /\ lastOp' = [NoOp EXCEPT !.op = "handleUnpublishScene", !.scene = s]
    /\ UNCHANGED <<sceneRendererHandler, connected, remoteScenes, failedSession>>

HandleFlush(s, versionTag, res) ==
    /\ clientSceneLogicMap[s].exists
    /\ LET r == flushSceneActions(s, versionTag, res)
       IN /\ out' = r.calls
          /\ clientSceneLogicMap' = [clientSceneLogicMap EXCEPT ![s] = r.logic]
    /\ lastOp' = [NoOp EXCEPT !.op = "handleFlush", !.scene = s,
                              !.upd = SceneUpdate("flush", versionTag, res)]
    /\ UNCHANGED <<sceneRendererHandler, connected, locallyPublishedScenes, remoteScenes, failedSession>>

HandleRemoveScene(s) ==
    /\ clientSceneLogicMap[s].exists
    /\ clientSceneLogicMap' = [clientSceneLogicMap EXCEPT ![s] = NoLogic]
    /\ out' = <<>>
    /\ lastOp' = [NoOp EXCEPT !.op = "handleRemoveScene", !.scene = s]
    /\ UNCHANGED <<sceneRendererHandler, connected, locallyPublishedScenes, remoteScenes, failedSession>>

\* handleSubscribeScene that makes a scene logic for a scene that has none.
handleSubscribeScene_CreatesLogic(s, consumerID) ==
    [clientSceneLogicMap EXCEPT
        ![s] = addSubscriber(IF @.exists THEN @ ELSE NewLogic, consumerID)]

\* handleSubscribeScene(sceneId, consumerID): the new scene logic map.
handleSubscribeScene(s, consumerID) ==
    IF clientSceneLogicMap[s].exists
    THEN [clientSceneLogicMap EXCEPT ![s] = addSubscriber(@, consumerID)]
    ELSE clientSceneLogicMap

handleUnsubscribeScene(s, consumerID) ==
    IF clientSceneLogicMap[s].exists
    THEN [clientSceneLogicMap EXCEPT ![s] = removeSubscriber(@, consumerID)]
    ELSE clientSceneLogicMap

HandleSubscribeScene(s, consumerID) ==
    /\ clientSceneLogicMap' = handleSubscribeScene(s, consumerID)
    /\ out' = <<>>
    /\ lastOp' = [NoOp EXCEPT !.op = "handleSubscribeScene", !.scene = s, !.who = consumerID]
    /\ UNCHANGED <<sceneRendererHandler, connected, locallyPublishedScenes, remoteScenes, failedSession>>

HandleUnsubscribeScene(s, consumerID) ==
    /\ clientSceneLogicMap' = handleUnsubscribeScene(s, consumerID)
    /\ out' = <<>>
    /\ lastOp' = [NoOp EXCEPT !.op = "handleUnsubscribeScene", !.scene = s, !.who = consumerID]
    /\ UNCHANGED <<sceneRendererHandler, connected, locallyPublishedScenes, remoteScenes, failedSession>>

\* subscribeScene(to, sceneId) of the local consumer.
SubscribeScene(to, s) ==
    /\ IF MyID = to
       THEN /\ clientSceneLogicMap' = handleSubscribeScene(s, MyID)
            /\ out' = <<>>
       ELSE /\ out' = <<NetCall("sendSubscribeScene", to, s, <<>>, NoUpdate)>>
            /\ UNCHANGED clientSceneLogicMap
    /\ lastOp' = [NoOp EXCEPT !.op = "subscribeScene", !.scene = s, !.who = to]
    /\ UNCHANGED <<sceneRendererHandler, connected, locallyPublishedScenes, remoteScenes, failedSession>>

UnsubscribeScene(to, s) ==
    /\ IF MyID = to
       THEN /\ clientSceneLogicMap' = handleUnsubscribeScene(s, MyID)
            /\ out' = <<>>
       ELSE /\ out' = <<NetCall("sendUnsubscribeScene", to, s, <<>>, NoUpdate)>>
            /\ UNCHANGED clientSceneLogicMap
    /\ lastOp' = [NoOp EXCEPT !.op = "unsubscribeScene", !.scene = s, !.who = to]
    /\ UNCHANGED <<sceneRendererHandler, connected, locallyPublishedScenes, remoteScenes, failedSession>>

ResourceLists == {[i \in 1..n |-> i] : n \in 0..MaxRes}

\* ----------------------------------------- ISceneRendererServiceHandler
\* handleInitializeScene(sceneId, providerID): accepted with a handler
\* attached, for a tracked scene, from its recorded provider.
initializeAccepted(s, providerID) ==
    /\ sceneRendererHandler
    /\ remoteScenes[s].tracked
    /\ remoteScenes[s].provider = providerID

\* handleInitializeScene that creates a decoder only when the entry has none.
handleInitializeScene_KeepDecoder(s, providerID) ==
    IF initializeAccepted(s, providerID)
    THEN [remote |-> [remoteScenes EXCEPT ![s].deser =
                         IF @.null THEN FreshDeserializer ELSE @],
          calls |-> <<RendererCall("handleInitializeScene", providerID, s,
                                   <<remoteScenes[s].info>>, NoUpdate)>>]
    ELSE [remote |-> remoteScenes, calls |-> <<>>]

handleInitializeScene(s, providerID) ==
    IF initializeAccepted(s, providerID)
    THEN [remote |-> [remoteScenes EXCEPT ![s].deser = FreshDeserializer],
          calls |-> <<RendererCall("handleInitializeScene", providerID, s,
                                   <<remoteScenes[s].info>>, NoUpdate)>>]
    ELSE [remote |-> remoteScenes, calls |-> <<>>]

HandleInitializeScene(s, providerID) ==
    /\ LET r == handleInitializeScene(s, providerID)
       IN /\ remoteScenes' = r.remote
          /\ out' = r.calls
    /\ failedSession' = IF initializeAccepted(s, providerID)
                        THEN [failedSession EXCEPT ![s] = FALSE]
                        ELSE failedSession
    /\ lastOp' = [NoOp EXCEPT !.op = "handleInitializeScene", !.scene = s, !.who = providerID,
                              !.result = IF ~initializeAccepted(s, providerID) THEN "rejected"
                                         ELSE IF remoteScenes[s].deser.null THEN "first"
                                         ELSE IF remoteScenes[s].deser.buf # <<>> THEN "partialDiscarded"
                                         ELSE "replaced"]
    /\ UNCHANGED <<sceneRendererHandler, connected, locallyPublishedScenes, clientSceneLogicMap>>

\* handleSceneUpdate reaches the decoder (lines 522-550).
updateReachesDecoder(s, actionData, providerID) ==
    /\ sceneRendererHandler
    /\ remoteScenes[s].tracked
    /\ remoteScenes[s].provider = providerID
    /\ actionData # <<>>
    /\ ~remoteScenes[s].deser.null

\* The switch with the Failed case falling through into HasData.
dispatchResult_FallThrough(s, providerID, r) ==
    IF r.result \in {"HasData", "Failed"}
    THEN <<RendererCall("handleSceneUpdate", providerID, s, <<>>,
                        [NoUpdate EXCEPT !.kind = "decoded", !.data = r.records])>>
    ELSE <<>>

\* The switch on the decoder's result (lines 553-570).
dispatchResult(s, providerID, r) ==
    IF r.result = "HasData"
    THEN <<RendererCall("handleSceneUpdate", providerID, s, <<>>,
                        [NoUpdate EXCEPT !.kind = "decoded", !.data = r.records])>>
    ELSE <<>>

\* handleSceneUpdate that makes a decoder for a scene that has none.
handleSceneUpdate_InitializesOnDemand(s, actionData, providerID) ==
    IF /\ sceneRendererHandler
       /\ remoteScenes[s].tracked
       /\ remoteScenes[s].provider = providerID
       /\ actionData # <<>>
    THEN LET deser == IF remoteScenes[s].deser.null THEN FreshDeserializer
                      ELSE remoteScenes[s].deser
             r == processData(deser, actionData)
         IN [remote |-> [remoteScenes EXCEPT ![s].deser = r.deser],
             calls |-> dispatchResult(s, providerID, r),
             result |-> r.result]
    ELSE [remote |-> remoteScenes, calls |-> <<>>, result |-> "-"]

handleSceneUpdate(s, actionData, providerID) ==
    IF updateReachesDecoder(s, actionData, providerID)
    THEN LET r == processData(remoteScenes[s].deser, actionData)
         IN [remote |-> [remoteScenes EXCEPT ![s].deser = r.deser],
             calls |-> dispatchResult(s, providerID, r),
             result |-> r.result]
    ELSE [remote |-> remoteScenes, calls |-> <<>>, result |-> "-"]

HandleSceneUpdate(s, actionData, providerID) ==
    /\ LET r == handleSceneUpdate(s, actionData, providerID)
       IN /\ remoteScenes' = r.remote
          /\ out' = r.calls
          /\ failedSession' = [failedSession EXCEPT ![s] = @ \/ r.result = "Failed"]
          /\ lastOp' = [NoOp EXCEPT !.op = "handleSceneUpdate", !.scene = s, !.who = providerID,
                                    !.data = actionData, !.result = r.result]
    /\ UNCHANGED <<sceneRendererHandler, connected, locallyPublishedScenes, clientSceneLogicMap>>

\* A duplicate publication merged into the tracked entry.
unpublishDuplicate_Merge(acc, newScene, providerID) == acc

\* A publication accepted whatever its feature level.
publishNewScene_AnyFeatureLevel(acc, newScene, providerID, featureLevel) ==
    IF ~acc.remote[newScene.sceneID].tracked
    THEN [remote |-> [acc.remote EXCEPT ![newScene.sceneID] =
                         ReceivedScene(newScene, providerID, NullDeserializer)],
          calls |-> acc.calls \o
                    (IF sceneRendererHandler
                     THEN <<RendererCall("handleNewSceneAvailable", providerID,
                                         newScene.sceneID, <<newScene>>, NoUpdate)>>
                     ELSE <<>>)]
    ELSE acc

\* A publication that takes a tracked scene over from its provider.
unpublishDuplicate_AnyProvider(acc, newScene, providerID) ==
    IF acc.remote[newScene.sceneID].tracked
    THEN [remote |-> [acc.remote EXCEPT ![newScene.sceneID] = NoScene],
          calls |-> acc.calls \o
                    (IF sceneRendererHandler
                     THEN <<RendererCall("handleSceneBecameUnavailable", providerID,
                                         newScene.sceneID, <<>>, NoUpdate)>>
                     ELSE <<>>)]
    ELSE acc

\* handleNewScenesAvailable, one scene of the message.  acc is the
\* remote-scene table and the calls made so far.
\* Lines 581-588: a scene tracked with the same provider is unpublished first.
unpublishDuplicate(acc, newScene, providerID) ==
    LET existing == acc.remote[newScene.sceneID]
    IN IF existing.tracked /\ existing.provider = providerID
       THEN [remote |-> [acc.remote EXCEPT ![newScene.sceneID] = NoScene],
             calls |-> acc.calls \o
                       (IF sceneRendererHandler
                        THEN <<RendererCall("handleSceneBecameUnavailable", providerID,
                                            newScene.sceneID, <<>>, NoUpdate)>>
                        ELSE <<>>)]
       ELSE acc

\* A publication that is recorded and not announced to the handler.
publishNewScene_Silent(acc, newScene, providerID, featureLevel) ==
    IF ~acc.remote[newScene.sceneID].tracked /\ featureLevel = FeatureLevel
    THEN [remote |-> [acc.remote EXCEPT ![newScene.sceneID] =
                         ReceivedScene(newScene, providerID, NullDeserializer)],
          calls |-> acc.calls]
    ELSE acc

\* Lines 590-611: an untracked scene of the local feature level is recorded
\* without decoder and announced.
publishNewScene(acc, newScene, providerID, featureLevel) ==
    IF ~acc.remote[newScene.sceneID].tracked
    THEN IF featureLevel = FeatureLevel
         THEN [remote |-> [acc.remote EXCEPT ![newScene.sceneID] =
                              ReceivedScene(newScene, providerID, NullDeserializer)],
               calls |-> acc.calls \o
                         (IF sceneRendererHandler
                          THEN <<RendererCall("handleNewSceneAvailable", providerID,
                                              newScene.sceneID, <<newScene>>, NoUpdate)>>
                          ELSE <<>>)]
         ELSE acc
    ELSE acc

RECURSIVE handleNewScenesAvailableLoop(_, _, _, _)
handleNewScenesAvailableLoop(acc, newScenes, providerID, featureLevel) ==
    IF newScenes = <<>> THEN acc
    ELSE handleNewScenesAvailableLoop(
             publishNewScene(unpublishDuplicate(acc, Head(newScenes), providerID),
                             Head(newScenes), providerID, featureLevel),
             Tail(newScenes), providerID, featureLevel)

handleNewScenesAvailable(newScenes, providerID, featureLevel) ==
    handleNewScenesAvailableLoop([remote |-> remoteScenes, calls |-> <<>>],
                                 newScenes, providerID, featureLevel)

\* The decoder instance of a scene whose entry was erased or replaced is gone.
sessionsAfter(remote) ==
    [s \in Scenes |-> failedSession[s] /\ remote[s].tracked /\ ~remote[s].deser.null]

HandleNewScenesAvailable(newScenes, providerID, featureLevel) ==
    /\ LET r == handleNewScenesAvailable(newScenes, providerID, featureLevel)
       IN /\ remoteScenes' = r.remote
          /\ out' = r.calls
          /\ failedSession' = sessionsAfter(r.remote)
    /\ lastOp' = [NoOp EXCEPT !.op = "handleNewScenesAvailable", !.who = providerID,
                              !.infos = newScenes, !.fl = featureLevel]
    /\ UNCHANGED <<sceneRendererHandler, connected, locallyPublishedScenes, clientSceneLogicMap>>

\* handleScenesBecameUnavailable: the loop over the scenes of the message.
RECURSIVE handleScenesBecameUnavailableLoop(_, _, _)
handleScenesBecameUnavailableLoop(acc, unavailableScenes, providerID) ==
    IF unavailableScenes = <<>> THEN acc
    ELSE LET s == Head(unavailableScenes).sceneID
         IN handleScenesBecameUnavailableLoop(
                IF acc.remote[s].tracked
                THEN [remote |-> [acc.remote EXCEPT ![s] = NoScene],
                      calls |-> acc.calls \o
                                (IF sceneRendererHandler
                                 THEN <<RendererCall("handleSceneBecameUnavailable", providerID,
                                                     s, <<>>, NoUpdate)>>
                                 ELSE <<>>)]
                ELSE acc,
                Tail(unavailableScenes), providerID)

handleScenesBecameUnavailable(unavailableScenes, providerID) ==
    handleScenesBecameUnavailableLoop([remote |-> remoteScenes, calls |-> <<>>],
                                      unavailableScenes, providerID)

HandleScenesBecameUnavailable(unavailableScenes, providerID) ==
    /\ LET r == handleScenesBecameUnavailable(unavailableScenes, providerID)
       IN /\ remoteScenes' = r.remote
          /\ out' = r.calls
          /\ failedSession' = sessionsAfter(r.remote)
    /\ lastOp' = [NoOp EXCEPT !.op = "handleScenesBecameUnavailable", !.who = providerID,
                              !.infos = unavailableScenes]
    /\ UNCHANGED <<sceneRendererHandler, connected, locallyPublishedScenes, clientSceneLogicMap>>

\* participantHasDisconnected, lines 274-278: the subscriber is removed
\* from the scene logic of every locally published scene.
removeDisconnectedSubscriber(p) ==
    [s \in Scenes |->
        IF locallyPublishedScenes[s] # NoInfo /\ clientSceneLogicMap[s].exists
        THEN removeSubscriber(clientSceneLogicMap[s], p)
        ELSE clientSceneLogicMap[s]]

\* The scenes of the provider reported unavailable but left in the table.
eraseScenesOfProvider_KeepEntries(p) ==
    [remote |-> remoteScenes,
     calls |-> IF sceneRendererHandler
               THEN SelectSeq([i \in DOMAIN SceneOrder |->
                                  RendererCall("handleSceneBecameUnavailable", p, SceneOrder[i],
                                               <<>>, NoUpdate)],
                              LAMBDA c : remoteScenes[c.scene].tracked
                                         /\ remoteScenes[c.scene].provider = p)
               ELSE <<>>]

\* participantHasDisconnected, lines 280-290: the scenes of the provider
\* are reported unavailable and erased, in scene id order.
eraseScenesOfProvider(p) ==
    [remote |-> [s \in Scenes |->
                    IF remoteScenes[s].tracked /\ remoteScenes[s].provider = p
                    THEN NoScene ELSE remoteScenes[s]],
     calls |-> IF sceneRendererHandler
               THEN SelectSeq([i \in DOMAIN SceneOrder |->
                                  RendererCall("handleSceneBecameUnavailable", p, SceneOrder[i],
                                               <<>>, NoUpdate)],
                              LAMBDA c : remoteScenes[c.scene].tracked
                                         /\ remoteScenes[c.scene].provider = p)
               ELSE <<>>]

ParticipantHasDisconnected(p) ==
    /\ clientSceneLogicMap' = removeDisconnectedSubscriber(p)
    /\ LET r == eraseScenesOfProvider(p)
       IN /\ remoteScenes' = r.remote
          /\ out' = r.calls
          /\ failedSession' = sessionsAfter(r.remote)
    /\ lastOp' = [NoOp EXCEPT !.op = "participantHasDisconnected", !.who = p]
    /\ UNCHANGED <<sceneRendererHandler, connected, locallyPublishedScenes>>

\* --------------------------------------------------------- specifications
Chunks == SeqsUpTo(Bytes, MaxChunk)
Announcements == {[i \in DOMAIN q |-> SceneInfo(q[i], "LocalAndRemote")] :
                     q \in SeqsUpTo(Scenes, MaxAnnounce) \ {<<>>}}

\* The producing side: the local client's scenes and their subscribers.
Next ==
    \/ \E attach \in BOOLEAN : SetSceneRendererHandler(attach) /\ ObserveProducer
    \/ ConnectToNetwork /\ ObserveProducer
    \/ DisconnectFromNetwork /\ ObserveProducer
    \/ \E p \in Remotes : NewParticipantHasConnected(p) /\ ObserveProducer
    \/ \E p \in Remotes : ParticipantHasDisconnected(p) /\ ObserveProducer
    \/ \E s \in LocalScenes : HandleCreateScene(s) /\ ObserveProducer
    \/ \E s \in LocalScenes, mode \in PublicationModes : HandlePublishScene(s, mode) /\ ObserveProducer
    \/ \E s \in LocalScenes : HandleUnpublishScene(s) /\ ObserveProducer
    \/ \E s \in LocalScenes, v \in 1..MaxVersion, res \in ResourceLists :
           HandleFlush(s, v, res) /\ ObserveProducer
    \/ \E s \in LocalScenes : HandleRemoveScene(s) /\ ObserveProducer
    \/ \E s \in LocalScenes, p \in Remotes : HandleSubscribeScene(s, p) /\ ObserveProducer
    \/ \E s \in LocalScenes, p \in Remotes : HandleUnsubscribeScene(s, p) /\ ObserveProducer
    \/ \E s \in LocalScenes : SubscribeScene(MyID, s) /\ ObserveProducer
    \/ \E s \in LocalScenes : UnsubscribeScene(MyID, s) /\ ObserveProducer

Spec == Init /\ [][Next]_vars

\* The consuming side: scenes published by remote participants.
NextRenderer ==
    \/ \E attach \in BOOLEAN : SetSceneRendererHandler(attach) /\ Quiet
    \/ \E q \in Announcements, p \in Remotes, fl \in FeatureLevels :
           HandleNewScenesAvailable(q, p, fl) /\ Quiet
    \/ \E q \in Announcements, p \in Remotes : HandleScenesBecameUnavailable(q, p) /\ Quiet
    \/ \E s \in Scenes, p \in Remotes : HandleInitializeScene(s, p) /\ Quiet
    \/ \E s \in Scenes, d \in Chunks, p \in Remotes : HandleSceneUpdate(s, d, p) /\ Quiet
    \/ \E p \in Remotes : ParticipantHasDisconnected(p) /\ Quiet
    \/ \E s \in Scenes, p \in Remotes : SubscribeScene(p, s) /\ Quiet
    \/ \E s \in Scenes, p \in Remotes : UnsubscribeScene(p, s) /\ Quiet

SpecRenderer == Init /\ [][NextRenderer]_vars

\* The ISceneGraphSender interface called directly, as the scene logic and
\* the component's unit tests call it.
SendSceneUpdate(toVec, upd, s) ==
    /\ out' = sendSceneUpdate(toVec, upd, s)
    /\ lastOp' = [NoOp EXCEPT !.op = "sendSceneUpdate", !.scene = s, !.toVec = toVec, !.upd = upd]
    /\ UNCHANGED <<sceneRendererHandler, connected, locallyPublishedScenes, clientSceneLogicMap,
                   remoteScenes, failedSession>>

SendCreateScene(to, sceneInfo) ==
    /\ out' = sendCreateScene(to, sceneInfo)
    /\ lastOp' = [NoOp EXCEPT !.op = "sendCreateScene", !.scene = sceneInfo.sceneID, !.who = to,
                              !.mode = sceneInfo.mode]
    /\ UNCHANGED <<sceneRendererHandler, connected, locallyPublishedScenes, clientSceneLogicMap,
                   remoteScenes, failedSession>>

SendPublishScene(sceneInfo) ==
    /\ LET r == sendPublishScene(sceneInfo)
       IN /\ out' = r.calls
          /\ locallyPublishedScenes' = r.published
    /\ lastOp' = [NoOp EXCEPT !.op = "sendPublishScene", !.scene = sceneInfo.sceneID,
                              !.mode = sceneInfo.mode]
    /\ UNCHANGED <<sceneRendererHandler, connected, clientSceneLogicMap, remoteScenes, failedSession>>

SendUnpublishScene(s, mode) ==
    /\ locallyPublishedScenes[s] # NoInfo
    /\ LET r == sendUnpublishScene(s, mode)
       IN /\ out' = r.calls
          /\ locallyPublishedScenes' = r.published
    /\ lastOp' = [NoOp EXCEPT !.op = "sendUnpublishScene", !.scene = s, !.mode = mode]
    /\ UNCHANGED <<sceneRendererHandler, connected, clientSceneLogicMap, remoteScenes, failedSession>>

Destinations == SeqsUpTo(Participants, MaxDest)
Updates == {SceneUpdate("delta", v, res) : v \in 1..MaxVersion, res \in ResourceLists}

NextSender ==
    \/ \E attach \in BOOLEAN : SetSceneRendererHandler(attach) /\ ObserveNotices
    \/ ConnectToNetwork /\ ObserveNotices
    \/ DisconnectFromNetwork /\ ObserveNotices
    \/ \E toVec \in Destinations, upd \in Updates, s \in LocalScenes :
           SendSceneUpdate(toVec, upd, s) /\ ObserveNotices
    \/ \E to \in Participants, s \in LocalScenes, mode \in PublicationModes :
           SendCreateScene(to, SceneInfo(s, mode)) /\ ObserveNotices
    \/ \E s \in LocalScenes, mode \in PublicationModes :
           SendPublishScene(SceneInfo(s, mode)) /\ ObserveNotices
    \/ \E s \in LocalScenes, mode \in PublicationModes : SendUnpublishScene(s, mode) /\ ObserveNotices

SpecSender == Init /\ [][NextSender]_vars

\* Subscription requests, local and remote, for the scenes of the local
\* client as they are created and removed.
NextSubscription ==
    \/ \E s \in Scenes : HandleCreateScene(s) /\ Quiet
    \/ \E s \in Scenes : HandleRemoveScene(s) /\ Quiet
    \/ \E s \in Scenes, p \in Remotes : HandleSubscribeScene(s, p) /\ Quiet
    \/ \E s \in Scenes, p \in Remotes : HandleUnsubscribeScene(s, p) /\ Quiet
    \/ \E s \in Scenes : SubscribeScene(MyID, s) /\ Quiet
    \/ \E s \in Scenes : UnsubscribeScene(MyID, s) /\ Quiet

SpecSubscription == Init /\ [][NextSubscription]_vars

\* told after the calls on the handler about the scenes of remote
\* providers: the local participant stands for the attached handler.
RECURSIVE believedAfter(_, _)
believedAfter(told, calls) ==
    IF calls = <<>> THEN told
    ELSE LET c == Head(calls)
             remote == c.on = "renderer" /\ c.to # MyID
             after ==
                 IF remote /\ c.k = "handleNewSceneAvailable"
                 THEN [told EXCEPT ![c.scene] = @ \cup {MyID}]
                 ELSE IF remote /\ c.k = "handleSceneBecameUnavailable"
                 THEN [told EXCEPT ![c.scene] = @ \ {MyID}]
                 ELSE told
         IN believedAfter(after, Tail(calls))

\* What the attached handler has been told of remote scenes is recorded; a
\* handler that is set has been told nothing yet.
ObserveConsumer ==
    /\ hist' = [hist EXCEPT
                   !.told = believedAfter(IF lastOp'.op = "setSceneRendererHandler"
                                          THEN [s \in Scenes |-> {}] ELSE @,
                                          out')]
    /\ ResourcesUntouched

\* The consuming side with what the handler is told.
NextConsumer ==
    \/ \E attach \in BOOLEAN : SetSceneRendererHandler(attach) /\ ObserveConsumer
    \/ \E q \in Announcements, p \in Remotes, fl \in FeatureLevels :
           HandleNewScenesAvailable(q, p, fl) /\ ObserveConsumer
    \/ \E q \in Announcements, p \in Remotes :
           HandleScenesBecameUnavailable(q, p) /\ ObserveConsumer
    \/ \E s \in Scenes, p \in Remotes : HandleInitializeScene(s, p) /\ ObserveConsumer
    \/ \E s \in Scenes, d \in Chunks, p \in Remotes :
           HandleSceneUpdate(s, d, p) /\ ObserveConsumer
    \/ \E p \in Remotes : ParticipantHasDisconnected(p) /\ ObserveConsumer

SpecConsumer == Init /\ [][NextConsumer]_vars

\* ------------------------------------------------ out-of-band events
MaxEvents == 2

\* m_sceneEventConsumers is written where m_clientSceneLogicMap is written
\* and nowhere else (lines 308-309 and 344-345): a scene has an event
\* consumer exactly while it has a scene logic.
sceneEventConsumers == {s \in Scenes : clientSceneLogicMap[s].exists}

\* The events: what tells two events of one kind and scene apart is what.
EventContents == {1, 2}
SceneReferenceEvent(masterSceneId, what) ==
    [type |-> "SceneReferencingEvent", scene |-> masterSceneId, what |-> what]
ResourceAvailabilityEvent(sceneid, what) ==
    [type |-> "ResourcesAvailableAtRendererEvent", scene |-> sceneid, what |-> what]
SceneReferenceEvents ==
    {SceneReferenceEvent(s, w) : s \in Scenes, w \in EventContents}
ResourceAvailabilityEvents ==
    {ResourceAvailabilityEvent(s, w) : s \in Scenes, w \in EventContents}

\* writeToBlob: the type comes first; the master scene of a scene
\* reference event travels as the scene id of the message, the scene of a
\* resource availability event travels in the blob.
writeToBlob(event) ==
    IF event.type = "SceneReferencingEvent"
    THEN <<event.type, event.what>>
    ELSE <<event.type, event.scene, event.what>>

\* readFromBlob into SceneReferenceEvent(sceneId) and into a
\* ResourceAvailabilityEvent.
readSceneReferenceEvent(sceneId, data) == SceneReferenceEvent(sceneId, data[2])
readResourceAvailabilityEvent(data) == ResourceAvailabilityEvent(data[2], data[3])

\* The data of a renderer event message: too short for a type, of a type
\* that is none of the two, or the blob of an event.
EventBlobs ==
    {<<>>, <<"Unknown", 1>>}
        \cup {writeToBlob(e) : e \in SceneReferenceEvents \cup ResourceAvailabilityEvents}

EventCall(on, k, to, scene, event) ==
    [on |-> on, k |-> k, to |-> to, scene |-> scene, infos |-> <<>>, upd |-> NoUpdate,
     level |-> "-", event |-> event]

\* An event is handed to a consumer whether one is registered or not.
forwardToSceneProviderEventConsumer_Unrouted(event) ==
    <<EventCall("consumer",
                IF event.type = "SceneReferencingEvent"
                THEN "handleSceneReferenceEvent" ELSE "handleResourceAvailabilityEvent",
                MyID, event.scene, event)>>

\* forwardToSceneProviderEventConsumer, both overloads: the calls made.
forwardToSceneProviderEventConsumer(event) ==
    IF event.scene \in sceneEventConsumers
    THEN <<EventCall("consumer",
                     IF event.type = "SceneReferencingEvent"
                     THEN "handleSceneReferenceEvent" ELSE "handleResourceAvailabilityEvent",
                     MyID, event.scene, event)>>
    ELSE <<>>

\* sendSceneReferenceEvent and sendResourceAvailabilityEvent: the calls made.
sendEvent(to, event) ==
    IF to = MyID
    THEN forwardToSceneProviderEventConsumer(event)
    ELSE <<EventCall("net", "sendRendererEvent", to, event.scene, writeToBlob(event))>>

\* handleRendererEvent: the calls made.
handleRendererEvent(sceneId, data) ==
    IF Len(data) < 1 THEN <<>>
    ELSE IF data[1] = "SceneReferencingEvent"
    THEN forwardToSceneProviderEventConsumer(readSceneReferenceEvent(sceneId, data))
    ELSE IF data[1] = "ResourcesAvailableAtRendererEvent"
    THEN forwardToSceneProviderEventConsumer(readResourceAvailabilityEvent(data))
    ELSE <<>>

SendSceneReferenceEvent(to, event) ==
    /\ out' = sendEvent(to, event)
    /\ lastOp' = [NoOp EXCEPT !.op = "sendSceneReferenceEvent", !.who = to,
                              !.scene = event.scene, !.data = <<event>>]
    /\ UNCHANGED <<sceneRendererHandler, connected, locallyPublishedScenes,
                   clientSceneLogicMap, remoteScenes, failedSession>>

SendResourceAvailabilityEvent(to, event) ==
    /\ out' = sendEvent(to, event)
    /\ lastOp' = [NoOp EXCEPT !.op = "sendResourceAvailabilityEvent", !.who = to,
                              !.scene = event.scene, !.data = <<event>>]
    /\ UNCHANGED <<sceneRendererHandler, connected, locallyPublishedScenes,
                   clientSceneLogicMap, remoteScenes, failedSession>>

HandleRendererEvent(sceneId, data, rendererID) ==
    /\ out' = handleRendererEvent(sceneId, data)
    /\ lastOp' = [NoOp EXCEPT !.op = "handleRendererEvent", !.who = rendererID,
                              !.scene = sceneId, !.data = data]
    /\ UNCHANGED <<sceneRendererHandler, connected, locallyPublishedScenes,
                   clientSceneLogicMap, remoteScenes, failedSession>>

\* The events the calls hand to the event consumer of scene s.
eventsHanded(calls, s) ==
    LET mine == SelectSeq(calls, LAMBDA c : c.on = "consumer" /\ c.scene = s)
    IN [i \in DOMAIN mine |-> mine[i].event]

\* The events handed over in the step are recorded; a consumer that is
\* registered or removed in the step has got nothing.
ObserveEvents ==
    /\ hist' = [hist EXCEPT
                   !.n = IF lastOp'.op \in {"handleCreateScene", "handleRemoveScene"}
                         THEN @ ELSE @ + 1,
                   !.handed = [s \in Scenes |->
                                  IF /\ lastOp'.op \in {"handleCreateScene", "handleRemoveScene"}
                                     /\ lastOp'.scene = s
                                  THEN <<>>
                                  ELSE @[s] \o eventsHanded(out', s)]]
    /\ ResourcesUntouched

\* Events sent to the local and to remote producers and received from the
\* network, for scenes as they are created and removed.
NextEvents ==
    \/ \E s \in Scenes : HandleCreateScene(s) /\ ObserveEvents
    \/ \E s \in Scenes : HandleRemoveScene(s) /\ ObserveEvents
    \/ \E to \in Participants, e \in SceneReferenceEvents :
           hist.n < MaxEvents /\ SendSceneReferenceEvent(to, e) /\ ObserveEvents
    \/ \E to \in Participants, e \in ResourceAvailabilityEvents :
           hist.n < MaxEvents /\ SendResourceAvailabilityEvent(to, e) /\ ObserveEvents
    \/ \E s \in Scenes, data \in EventBlobs, p \in Remotes :
           hist.n < MaxEvents /\ HandleRendererEvent(s, data, p) /\ ObserveEvents

SpecEvents == Init /\ [][NextEvents]_vars

\* Publishing alone: sendPublishScene and sendUnpublishScene of every scene
\* id, with the handler and the connection changing in between.
NextPublisher ==
    \/ \E attach \in BOOLEAN : SetSceneRendererHandler(attach) /\ ObserveNotices
    \/ ConnectToNetwork /\ ObserveNotices
    \/ DisconnectFromNetwork /\ ObserveNotices
    \/ \E s \in Scenes, mode \in PublicationModes :
           SendPublishScene(SceneInfo(s, mode)) /\ ObserveNotices
    \/ \E s \in Scenes, mode \in PublicationModes : SendUnpublishScene(s, mode) /\ ObserveNotices

SpecPublisher == Init /\ [][NextPublisher]_vars

\* ------------------------------------------- update streams in the history
\* The scene whose updates the history follows, and the subscriber lists a
\* scene logic hands to sendSceneUpdate: no participant twice, never empty.
StreamScene == 1
SubscriberLists ==
    {q \in Destinations : q # <<>> /\ \A i, j \in DOMAIN q : q[i] = q[j] => i = j}

\* What an update carries, as far as a receiver can tell updates apart.
Carried(upd) == [ver |-> upd.ver, res |-> upd.res]

\* A numbered sendSceneUpdate call is recorded: who was named, who got what.
ObserveSend ==
    LET u == Carried(lastOp'.upd)
        named == Range(lastOp'.toVec)
    IN ResourcesUntouched /\
       hist' = [hist EXCEPT
                   !.n = @ + 1,
                   !.sent = [p \in Participants |-> IF p \in named THEN Append(@[p], u) ELSE @[p]],
                   !.attached = IF MyID \in named /\ sceneRendererHandler THEN Append(@, u) ELSE @,
                   !.got = [p \in Participants |->
                               LET ups == updatesTo(out', StreamScene, p)
                               IN @[p] \o [i \in DOMAIN ups |-> Carried(ups[i].upd)]]]

\* The records of the updates handed to the handler by the calls.
RECURSIVE forwardedRecords(_)
forwardedRecords(calls) ==
    IF calls = <<>> THEN <<>>
    ELSE (IF Head(calls).on = "renderer" /\ Head(calls).k = "handleSceneUpdate"
          THEN Head(calls).upd.data ELSE <<>>)
         \o forwardedRecords(Tail(calls))

\* A handleSceneUpdate is recorded: the bytes that reached the decoder and
\* the records that were forwarded.
ObserveReceive ==
    /\ hist' = [hist EXCEPT
                   !.stream = IF lastOp'.result # "-" THEN @ \o lastOp'.data ELSE @,
                   !.fwd = @ \o forwardedRecords(out')]
    /\ ResourcesUntouched

\* The decoder session ends when the scene gets a new decoder or loses it.
ObserveSession ==
    /\ hist' = IF \/ lastOp'.op = "handleInitializeScene" /\ lastOp'.result # "rejected"
                  \/ remoteScenes'[StreamScene].deser.null
               THEN [hist EXCEPT !.stream = <<>>, !.fwd = <<>>]
               ELSE hist
    /\ ResourcesUntouched

\* The history follows one side of the component in a behaviour: the
\* producing side and the consuming side share the handler only.
InitStream ==
    /\ sceneRendererHandler = FALSE
    /\ connected = FALSE
    /\ locallyPublishedScenes = [s \in Scenes |-> NoInfo]
    /\ clientSceneLogicMap = [s \in Scenes |-> NoLogic]
    /\ remoteScenes = [s \in Scenes |-> NoScene]
    /\ failedSession = [s \in Scenes |-> FALSE]
    /\ out = <<>>
    /\ lastOp = NoOp
    /\ \E role \in {"producer", "consumer"} : hist = [NoHist EXCEPT !.role = role]
    /\ ResourceInit

Producing == hist.role = "producer" /\ hist.n < MaxFlush
Consuming == hist.role = "consumer"

NextStream ==
    \/ \E attach \in BOOLEAN : SetSceneRendererHandler(attach) /\ Quiet
    \/ \E toVec \in SubscriberLists, res \in ResourceLists :
           /\ Producing
           /\ SendSceneUpdate(toVec, SceneUpdate("delta", hist.n + 1, res), StreamScene)
           /\ ObserveSend
    \/ \E p \in Remotes :
           /\ Consuming
           /\ HandleNewScenesAvailable(<<SceneInfo(StreamScene, "LocalAndRemote")>>, p, FeatureLevel)
           /\ ObserveSession
    \/ \E p \in Remotes :
           Consuming /\ HandleInitializeScene(StreamScene, p) /\ ObserveSession
    \/ \E d \in Chunks, p \in Remotes :
           /\ Consuming
           /\ Len(hist.stream) + Len(d) <= MaxStream
           /\ HandleSceneUpdate(StreamScene, d, p)
           /\ ObserveReceive
    \/ \E p \in Remotes :
           Consuming /\ ParticipantHasDisconnected(p) /\ ObserveSession

SpecStream == InitStream /\ [][NextStream]_vars

\* ------------------------------------------- resource component actions
\* No operation of the scene graph component runs in the step, and no
\* thread calls the resource component beside the operation of the step.
SceneGraphUntouched ==
    UNCHANGED <<sceneRendererHandler, connected, locallyPublishedScenes, clientSceneLogicMap,
                remoteScenes, failedSession, out, hist, inFlight, resources, workers,
                commandBuffer>>

\* ResourceComponent::manageResource and manageResourceDeletionAllowed.
ManageResource(h, deletionAllowed) ==
    /\ resourceStorage[h].refCount < MaxRefs
    /\ resourceStorage' = manageResource(resourceStorage, h, deletionAllowed)
    /\ lastOp' = ResourceOp(IF deletionAllowed THEN "manageResourceDeletionAllowed"
                            ELSE "manageResource", <<h>>, 0, <<>>, <<h>>, <<>>, {})
    /\ UNCHANGED resourceFiles
    /\ SceneGraphUntouched

\* A ManagedResource handle goes out of scope at its holder.
ReleaseResource(h) ==
    /\ resourceStorage[h].refCount > 0
    /\ resourceStorage' = releaseResource(resourceStorage, h)
    /\ lastOp' = ResourceOp("releaseResource", <<h>>, 0, <<>>, <<>>, <<>>, {})
    /\ UNCHANGED resourceFiles
    /\ SceneGraphUntouched

\* ResourceComponent::getResourceHashUsage: a scene object takes a usage.
GetResourceHashUsage(h) ==
    /\ ~resourceStorage[h].hashUsage
    /\ resourceStorage' = [resourceStorage EXCEPT ![h].hashUsage = TRUE]
    /\ lastOp' = ResourceOp("getResourceHashUsage", <<h>>, 0, <<>>, <<>>, <<>>, {})
    /\ UNCHANGED resourceFiles
    /\ SceneGraphUntouched

\* The scene object gives its usage up.
ReleaseHashUsage(h) ==
    /\ resourceStorage[h].hashUsage
    /\ resourceStorage' = releaseHashUsage(resourceStorage, h)
    /\ lastOp' = ResourceOp("releaseHashUsage", <<h>>, 0, <<>>, <<>>, <<>>, {})
    /\ UNCHANGED resourceFiles
    /\ SceneGraphUntouched

\* getResource that falls back to the registered files on a miss.
GetResource_LoadOnMiss(h) ==
    LET got == getResource(resourceStorage, h)
        mr == IF got.handle THEN got ELSE loadResource(resourceStorage, resourceFiles, h, "resource")
    IN /\ mr.storage[h].refCount <= MaxRefs
       /\ resourceStorage' = mr.storage
       /\ lastOp' = ResourceOp("getResource", <<h>>, 0, <<>>,
                               IF mr.handle THEN <<h>> ELSE <<>>, <<>>, {})
       /\ UNCHANGED resourceFiles
       /\ SceneGraphUntouched

\* ResourceComponent::getResource.
GetResource(h) ==
    LET got == getResource(resourceStorage, h)
    IN /\ got.storage[h].refCount <= MaxRefs
       /\ resourceStorage' = got.storage
       /\ lastOp' = ResourceOp("getResource", <<h>>, 0, <<>>,
                               IF got.handle THEN <<h>> ELSE <<>>, <<>>, {})
       /\ UNCHANGED resourceFiles
       /\ SceneGraphUntouched

\* addResourceFile that reads the payloads of the file right away.
AddResourceFile_LoadsPayload(toc) ==
    /\ resourceFiles.next \in FileHandles
    /\ resourceStorage' = [h \in Hashes |->
                              IF h \in toc
                              THEN [storeResourceInfo(resourceStorage, h)[h] EXCEPT !.resource = TRUE]
                              ELSE resourceStorage[h]]
    /\ resourceFiles' = registerResourceFile(resourceFiles, toc)
    /\ lastOp' = ResourceOp("addResourceFile", <<>>, resourceFiles.next, <<>>, <<>>, <<>>, {})
    /\ SceneGraphUntouched

\* ResourceComponent::addResourceFile; the handle returned is in lastOp.
AddResourceFile(toc) ==
    /\ resourceFiles.next \in FileHandles
    /\ resourceStorage' = [h \in Hashes |->
                              IF h \in toc THEN storeResourceInfo(resourceStorage, h)[h]
                              ELSE resourceStorage[h]]
    /\ resourceFiles' = registerResourceFile(resourceFiles, toc)
    /\ lastOp' = ResourceOp("addResourceFile", <<>>, resourceFiles.next, <<>>, <<>>, <<>>, {})
    /\ SceneGraphUntouched

\* ResourceComponent::loadResourceFromFile.
LoadResourceFromFile(handle, reads) ==
    LET known == hasResourceFile(resourceFiles, handle)
        done == IF known
                THEN loadFromFileLoop([storage |-> resourceStorage, stat |-> 0, loaded |-> {}],
                                      resourceFiles, resourceFiles.file[handle].toc, reads, 1)
                ELSE [storage |-> resourceStorage, stat |-> 0, loaded |-> {}]
    IN /\ resourceStorage' = done.storage
       /\ lastOp' = [ResourceOp("loadResourceFromFile", <<>>, handle,
                                [h \in Hashes |-> delivered(reads[h])], <<>>, <<>>, done.loaded)
                        EXCEPT !.stat = done.stat]
       /\ UNCHANGED resourceFiles
       /\ SceneGraphUntouched

\* removeResourceFile that also unloads the resources of the file.
RemoveResourceFile_UnloadsResources(handle) ==
    /\ resourceFiles' = unregisterResourceFile(resourceFiles, handle)
    /\ resourceStorage' = [h \in Hashes |->
                              IF h \in resourceFiles.file[handle].toc
                              THEN [resourceStorage[h] EXCEPT !.resource = FALSE, !.refCount = 0]
                              ELSE resourceStorage[h]]
    /\ lastOp' = ResourceOp("removeResourceFile", <<>>, handle, <<>>, <<>>, <<>>, {})
    /\ SceneGraphUntouched

\* ResourceComponent::removeResourceFile.
RemoveResourceFile(handle) ==
    /\ resourceFiles' = unregisterResourceFile(resourceFiles, handle)
    /\ lastOp' = ResourceOp("removeResourceFile", <<>>, handle, <<>>, <<>>, <<>>, {})
    /\ UNCHANGED resourceStorage
    /\ SceneGraphUntouched

\* ResourceComponent::resolveResources; the caller keeps the handles.
ResolveResources(hashes, reads) ==
    LET done == resolveResources(resourceStorage, resourceFiles, hashes, reads)
    IN /\ \A h \in Hashes : done.storage[h].refCount <= MaxRefs
       /\ resourceStorage' = done.storage
       /\ lastOp' = [ResourceOp("resolveResources", hashes, 0,
                                [i \in DOMAIN hashes |-> delivered(reads[i])],
                                done.result, done.failed, done.loaded)
                        EXCEPT !.stat = done.stat]
       /\ UNCHANGED resourceFiles
       /\ SceneGraphUntouched

\* The inputs of the operations.  What reading an entry yields is an input
\* only where the operation reads the entry: elsewhere it is "resource".
Batches == SeqsUpTo(Hashes, MaxBatch)
Tocs == (SUBSET Hashes) \ {{}}
readsEntry(hashes, reads, i) ==
    /\ ~resourceStorage[hashes[i]].resource
    /\ getEntry(resourceFiles, hashes[i])
    /\ \A j \in 1..(i - 1) : hashes[j] = hashes[i] => reads[j] # "resource"
ReadsOfBatch(hashes) ==
    {reads \in [DOMAIN hashes -> ReadOutcomes] :
        \A i \in DOMAIN hashes : reads[i] # "resource" => readsEntry(hashes, reads, i)}
ReadsOfFile(handle) ==
    {reads \in [Hashes -> ReadOutcomes] :
        \A h \in Hashes :
            reads[h] # "resource" =>
                /\ hasResourceFile(resourceFiles, handle)
                /\ h \in resourceFiles.file[handle].toc
                /\ isFileResourceInUseAnywhereElse(resourceStorage, h)
                /\ ~resourceStorage[h].resource}

NextResource ==
    \/ \E h \in Hashes, deletionAllowed \in BOOLEAN : ManageResource(h, deletionAllowed)
    \/ \E h \in Hashes : ReleaseResource(h)
    \/ \E h \in Hashes : GetResourceHashUsage(h)
    \/ \E h \in Hashes : ReleaseHashUsage(h)
    \/ \E h \in Hashes : GetResource(h)
    \/ \E toc \in Tocs : AddResourceFile(toc)
    \/ \E handle \in FileHandles : \E reads \in ReadsOfFile(handle) :
           LoadResourceFromFile(handle, reads)
    \/ \E handle \in FileHandles : RemoveResourceFile(handle)
    \/ \E hashes \in Batches : \E reads \in ReadsOfBatch(hashes) :
           ResolveResources(hashes, reads)

SpecResource == Init /\ [][NextResource]_vars

\* ------------------------------------------------ concurrent callers
\* Several threads call manageResource, manageResourceDeletionAllowed and
\* loadResource at the same time.  A call brings its IResource object and
\* then runs ResourceStorage::manageResource, which the storage runs under
\* its lock: one step.
OnlyCallers ==
    UNCHANGED <<sceneRendererHandler, connected, locallyPublishedScenes, clientSceneLogicMap,
                remoteScenes, failedSession, out, hist, resourceFiles, resources, workers,
                commandBuffer>>

mayCall(t) == inFlight.call[t].pc = "idle" /\ inFlight.call[t].n < MaxCalls
newObject(t) == <<t, inFlight.call[t].n + 1>>

\* The call of thread t has made its object and is about to enter the storage.
brings(t, op, h, deletionAllowed) ==
    [inFlight EXCEPT
        !.call[t] = [pc |-> "manage", n |-> inFlight.call[t].n + 1, op |-> op, hash |-> h,
                     deletionAllowed |-> deletionAllowed, obj |-> newObject(t),
                     handle |-> NoObject],
        !.objects[h] = @ \cup {newObject(t)}]

\* ResourceComponent::manageResource / manageResourceDeletionAllowed is called.
CallManageResource(t, h, deletionAllowed) ==
    /\ mayCall(t)
    /\ inFlight' = brings(t, IF deletionAllowed THEN "manageResourceDeletionAllowed"
                             ELSE "manageResource", h, deletionAllowed)
    /\ lastOp' = ResourceOp("call", <<h>>, t, <<>>, <<>>, <<>>, {})
    /\ UNCHANGED resourceStorage
    /\ OnlyCallers

\* ResourceComponent::loadResource is called and reads the entry of the file.
CallLoadResource(t, h, read) ==
    /\ mayCall(t)
    /\ inFlight' = IF getEntry(resourceFiles, h) /\ delivered(read)
                   THEN brings(t, "loadResource", h, TRUE)
                   ELSE [inFlight EXCEPT !.call[t] = [NoCall EXCEPT !.n = inFlight.call[t].n + 1]]
    /\ lastOp' = ResourceOp("call", <<h>>, t, <<>>, <<>>, <<>>, {})
    /\ UNCHANGED resourceStorage
    /\ OnlyCallers

\* The storage attaches whatever object enters, coalescing nothing.
EnterStorage_NoCoalescing(t) ==
    LET c == inFlight.call[t]
    IN /\ c.pc = "manage"
       /\ resourceStorage' = [resourceStorage EXCEPT ![c.hash].resource = TRUE,
                                                     ![c.hash].refCount = @ + 1]
       /\ inFlight' = [inFlight EXCEPT !.call[t].pc = "holding", !.call[t].handle = c.obj,
                                       !.payload[c.hash] = c.obj]
       /\ lastOp' = ResourceOp("enter", <<c.hash>>, t, <<>>, <<>>, <<>>, {})
       /\ OnlyCallers

\* ResourceStorage::manageResource runs for the call of thread t: the object
\* becomes the payload, or it is deleted and the handle refers to the payload
\* that is live already.
EnterStorage(t) ==
    LET c == inFlight.call[t]
        live == resourceStorage[c.hash].resource
    IN /\ c.pc = "manage"
       /\ resourceStorage' = manageResource(resourceStorage, c.hash, c.deletionAllowed)
       /\ inFlight' = IF live
                      THEN [inFlight EXCEPT !.call[t].pc = "holding",
                                            !.call[t].handle = inFlight.payload[c.hash],
                                            !.objects[c.hash] = @ \ {c.obj}]
                      ELSE [inFlight EXCEPT !.call[t].pc = "holding",
                                            !.call[t].handle = c.obj,
                                            !.payload[c.hash] = c.obj]
       /\ lastOp' = ResourceOp("enter", <<c.hash>>, t, <<>>, <<>>, <<>>, {})
       /\ OnlyCallers

\* Thread t lets go of the handle it got.
ReleaseHandle(t) ==
    LET c == inFlight.call[t]
        st == releaseResource(resourceStorage, c.hash)
    IN /\ c.pc = "holding"
       /\ resourceStorage' = st
       /\ inFlight' = IF st[c.hash].resource
                      THEN [inFlight EXCEPT !.call[t] = [NoCall EXCEPT !.n = c.n]]
                      ELSE [inFlight EXCEPT !.call[t] = [NoCall EXCEPT !.n = c.n],
                                            !.payload[c.hash] = NoObject,
                                            !.objects[c.hash] = @ \ {inFlight.payload[c.hash]}]
       /\ lastOp' = ResourceOp("release", <<c.hash>>, t, <<>>, <<>>, <<>>, {})
       /\ OnlyCallers

\* The scene graph component after its construction.
SceneGraphInit ==
    /\ sceneRendererHandler = FALSE
    /\ connected = FALSE
    /\ locallyPublishedScenes = [s \in Scenes |-> NoInfo]
    /\ clientSceneLogicMap = [s \in Scenes |-> NoLogic]
    /\ remoteScenes = [s \in Scenes |-> NoScene]
    /\ failedSession = [s \in Scenes |-> FALSE]
    /\ out = <<>>
    /\ lastOp = NoOp
    /\ hist = NoHist
    /\ commandBuffer = NoCommands

\* The component after addResourceFile of a file that lists every hash.
InitCallers ==
    /\ SceneGraphInit
    /\ resourceStorage = [h \in Hashes |-> storeResourceInfo([g \in Hashes |-> NoEntry], h)[h]]
    /\ resourceFiles = registerResourceFile(NoFiles, Hashes)
    /\ inFlight = NoCalls
    /\ resources = [v \in Values |-> EmptyResource("EResourceType_Invalid", 1, "")]
    /\ workers = NoWorkers

NextCallers ==
    \/ \E t \in Threads, h \in Hashes, deletionAllowed \in BOOLEAN :
           CallManageResource(t, h, deletionAllowed)
    \/ \E t \in Threads, h \in Hashes, read \in ReadOutcomes : CallLoadResource(t, h, read)
    \/ \E t \in Threads : EnterStorage(t)
    \/ \E t \in Threads : ReleaseHandle(t)

SpecCallers == InitCallers /\ [][NextCallers]_vars

\* ------------------------------------------------ resource value actions
\* The calls the tests make on resource values, one thread at a time.
OnlyValues ==
    UNCHANGED <<sceneRendererHandler, connected, locallyPublishedScenes, clientSceneLogicMap,
                remoteScenes, failedSession, out, hist, resourceStorage, resourceFiles,
                inFlight, workers, commandBuffer>>

ValueOp(op, v, level) == [op |-> op, value |-> v, level |-> level, hash |-> InvalidHash]

\* res.setResourceData(blob) and res.setResourceData(blob, hash).  The
\* record of the call keeps the level of the buffer the value had.
SetResourceData(v, blob, hash) ==
    /\ resources' = [resources EXCEPT ![v] = setResourceData(@, blob, hash)]
    /\ lastOp' = [ValueOp("setResourceData", v, resources[v].level) EXCEPT !.hash = hash]
    /\ OnlyValues

\* res.setCompressedResourceData(copy of the compressed buffer of from,
\* level, from.getDecompressedDataSize(), from.getHash()).
SetCompressedResourceData(v, from, level) ==
    LET src == resources[from]
    IN /\ v # from
       /\ isCompressedAvailable(src)
       /\ getHash(src) # InvalidHash
       /\ resources' =
              [resources EXCEPT ![v] =
                  [setCompressedResourceData(@, src.compressed, level, src.decompressedSize,
                                             getHash(src))
                   EXCEPT !.builtFrom = IF isDeCompressedAvailable(src) THEN src.data
                                        ELSE src.builtFrom]]
       /\ lastOp' = [ValueOp("setCompressedResourceData", v, level) EXCEPT !.hash = getHash(src)]
       /\ OnlyValues

\* res.compress(level).
Compress(v, level) ==
    /\ resources' = [resources EXCEPT ![v] = compress(@, level)]
    /\ lastOp' = ValueOp("compress", v, level)
    /\ OnlyValues

\* res.decompress().
Decompress(v) ==
    /\ resources' = [resources EXCEPT ![v] = decompress(@)]
    /\ lastOp' = ValueOp("decompress", v, LevelNone)
    /\ OnlyValues

\* Two resources as their constructors leave them.
InitValues ==
    /\ SceneGraphInit
    /\ resourceStorage = [h \in Hashes |-> NoEntry]
    /\ resourceFiles = NoFiles
    /\ inFlight = NoCalls
    /\ resources = [v \in Values |-> EmptyResource("EResourceType_Invalid", 1, "")]
    /\ workers = NoWorkers

NextValue ==
    \/ \E v \in Values, blob \in ResourceBlobs, hash \in {InvalidHash} \cup GivenHashes :
           SetResourceData(v, blob, hash)
    \/ \E v \in Values, from \in Values, level \in {Realtime, Offline} :
           SetCompressedResourceData(v, from, level)
    \/ \E v \in Values, level \in CompressionLevel : Compress(v, level)
    \/ \E v \in Values : Decompress(v)

SpecValue == InitValues /\ [][NextValue]_vars

\* ------------------------------------------------- resource hash actions
\* Two resources of any type, metadata and name, as their constructors
\* leave them, and the calls of the hash tests on them.
InitHash ==
    /\ SceneGraphInit
    /\ resourceStorage = [h \in Hashes |-> NoEntry]
    /\ resourceFiles = NoFiles
    /\ inFlight = NoCalls
    /\ resources \in [Values -> {EmptyResource(typeID, metadata, name) :
                                    typeID \in ResourceTypes, metadata \in Metadata,
                                    name \in ResourceNames}]
    /\ workers = NoWorkers

\* The blobs of the hash tests: 2048 bytes, and the same with another first byte.
HashBlobs == { <<Run(2048, 0)>>, <<Run(1, 1), Run(2047, 0)>> }

NextHash ==
    \/ \E v \in Values, blob \in HashBlobs, hash \in {InvalidHash} \cup GivenHashes :
           SetResourceData(v, blob, hash)
    \/ \E v \in Values, from \in Values : SetCompressedResourceData(v, from, Realtime)
    \/ \E v \in Values : Compress(v, Realtime)

SpecHash == InitHash /\ [][NextHash]_vars

\* ------------------------------------------------------- worker threads
\* Threads that call compress, decompress and the readers of resource
\* values at the same time.  compress and decompress hold the compression
\* lock of their value from their first step to their last; between the two
\* the buffer they write is incomplete.
OnlyWorkers ==
    UNCHANGED <<sceneRendererHandler, connected, locallyPublishedScenes, clientSceneLogicMap,
                remoteScenes, failedSession, out, hist, resourceStorage, resourceFiles,
                inFlight, commandBuffer>>

\* A buffer that is not completely written: no call ever makes these.
Torn == << <<-1, 0>> >>
TornData == << Run(0, -1) >>

WorkerCalls ==
    { [call |-> "compress", level |-> Realtime], [call |-> "compress", level |-> Offline],
      [call |-> "decompress", level |-> LevelNone] }

\* What a call makes of a value.
apply(c, res) == IF c.call = "compress" THEN compress(res, c.level) ELSE decompress(res)

\* The value while the call writes: the buffers the call changes are incomplete.
writing(c, res) ==
    LET done == apply(c, res)
    IN [res EXCEPT !.compressed = IF done.compressed # res.compressed THEN Torn ELSE @,
                   !.data = IF done.data # res.data THEN TornData ELSE @]

\* The record of a step: for a read, the value read and what was seen of it.
WorkerOp(op, v, seen) == [op |-> op, value |-> v, seen |-> seen]

\* The calls of compress and decompress made so far.
callsMade == Len(workers.log[1]) + Len(workers.log[2])

\* A worker that starts to write without taking the lock.
EnterCompression_NoLock(t, c, v) ==
    /\ workers.thread[t].pc = "idle"
    /\ callsMade < MaxWork
    /\ workers' = [workers EXCEPT
                       !.lock[v] = t,
                       !.thread[t] = [pc |-> "inside", call |-> c.call, level |-> c.level,
                                      value |-> v, entry |-> resources[v]],
                       !.log[t] = Append(@, [call |-> c.call, level |-> c.level, value |-> v])]
    /\ resources' = [resources EXCEPT ![v] = writing(c, @)]
    /\ lastOp' = WorkerOp("enter", 0, <<>>)
    /\ OnlyWorkers

\* Thread t calls compress(level) or decompress() on value v: it takes the
\* lock of the value and starts to write.
EnterCompression(t, c, v) ==
    /\ workers.thread[t].pc = "idle"
    /\ callsMade < MaxWork
    /\ workers.lock[v] = 0
    /\ workers' = [workers EXCEPT
                       !.lock[v] = t,
                       !.thread[t] = [pc |-> "inside", call |-> c.call, level |-> c.level,
                                      value |-> v, entry |-> resources[v]],
                       !.log[t] = Append(@, [call |-> c.call, level |-> c.level, value |-> v])]
    /\ resources' = [resources EXCEPT ![v] = writing(c, @)]
    /\ lastOp' = WorkerOp("enter", 0, <<>>)
    /\ OnlyWorkers

\* The call of thread t has written its buffers; it gives the lock back.
LeaveCompression(t) ==
    LET w == workers.thread[t]
    IN /\ w.pc = "inside"
       /\ resources' = [resources EXCEPT ![w.value] = apply(w, w.entry)]
       /\ workers' = [workers EXCEPT !.lock[w.value] = 0, !.thread[t] = Idle]
       /\ lastOp' = WorkerOp("leave", 0, <<>>)
       /\ OnlyWorkers

\* Thread t reads value v (isCompressedAvailable, getCompressedResourceData,
\* getResourceData) under the lock of the value.
ReadValue(t, v) ==
    /\ workers.thread[t].pc = "idle"
    /\ workers.lock[v] = 0
    /\ lastOp' = WorkerOp("read", v, [compressed |-> resources[v].compressed,
                                       data |-> resources[v].data])
    /\ UNCHANGED <<resources, workers>>
    /\ OnlyWorkers

\* The resources of the threaded tests: 2000 bytes each, value 1 with its
\* data only, value 2 made compressed-only at Realtime.
WorkerBlob == <<Run(2000, 10)>>
WorkerResources ==
    LET res == setResourceData(EmptyResource("EResourceType_Effect", 1, ""), WorkerBlob,
                               InvalidHash)
        done == compress(res, Realtime)
    IN [v \in Values |->
          IF v = 1 THEN res
          ELSE setCompressedResourceData(EmptyResource(res.typeID, res.metadata, res.name),
                                         done.compressed, Realtime, done.decompressedSize,
                                         getHash(done))]

InitWorkers ==
    /\ SceneGraphInit
    /\ resourceStorage = [h \in Hashes |-> NoEntry]
    /\ resourceFiles = NoFiles
    /\ inFlight = NoCalls
    /\ resources = WorkerResources
    /\ workers = NoWorkers

NextWorkers ==
    \/ \E t \in Threads, c \in WorkerCalls, v \in Values : EnterCompression(t, c, v)
    \/ \E t \in Threads : LeaveCompression(t)
    \/ \E t \in Threads, v \in Values : ReadValue(t, v)

SpecWorkers == InitWorkers /\ [][NextWorkers]_vars

\* --------------------------------------------------- scene command buffer
MaxCommands == 3

\* Threads enqueue commands into the SceneCommandBuffer of a scene while
\* the thread of the scene executes it.  enqueueCommand appends under the
\* lock of the buffer; execute takes the whole buffer under the lock and
\* visits what it took without the lock.
OnlyCommands ==
    UNCHANGED <<sceneRendererHandler, connected, locallyPublishedScenes, clientSceneLogicMap,
                remoteScenes, failedSession, out, hist, resourceStorage, resourceFiles,
                inFlight, resources, workers>>

CommandTypes ==
    {"SceneCommandForceFallback", "SceneCommandFlushSceneVersion",
     "SceneCommandValidationRequest"}

\* The n-th command of thread t.
SceneCommand(type, t, n) == [type |-> type, thread |-> t, n |-> n]

\* MockSceneCommandVisitor::operator(): the handler of each command type.
handlerOf(cmd) ==
    IF cmd.type = "SceneCommandForceFallback" THEN "handleSceneCommandForceFallback"
    ELSE IF cmd.type = "SceneCommandFlushSceneVersion" THEN "handleSceneCommandFlushSceneVersion"
    ELSE "handleSceneCommandValidationRequest"

commandsEnqueued == Len(commandBuffer.enq[1]) + Len(commandBuffer.enq[2])

\* An execute that visits a copy of the buffer and leaves the buffer as it is.
takeBuffer_Copy(b) == [b EXCEPT !.local = b.buffer]

\* execute, under the lock: the buffer is swapped with an empty vector.
takeBuffer(b) == [b EXCEPT !.local = b.buffer, !.buffer = <<>>]

\* Thread t calls enqueueCommand.
EnqueueCommand(t, type) ==
    LET cmd == SceneCommand(type, t, Len(commandBuffer.enq[t]) + 1)
    IN /\ commandsEnqueued < MaxCommands
       /\ commandBuffer' = [commandBuffer EXCEPT !.buffer = Append(@, cmd),
                                                  !.enq[t] = Append(@, cmd)]
       /\ lastOp' = [op |-> "enqueueCommand"]
       /\ OnlyCommands

\* execute(visitor) starts: it takes the buffer.
ExecuteTake ==
    /\ commandBuffer.pc = "idle"
    /\ commandBuffer' = [takeBuffer(commandBuffer) EXCEPT
                             !.pc = "visiting",
                             !.mark = [t \in Threads |-> Len(commandBuffer.enq[t])]]
    /\ lastOp' = [op |-> "execute"]
    /\ OnlyCommands

\* execute visits the next command it took: the visitor is called with it.
ExecuteVisit ==
    /\ commandBuffer.pc = "visiting"
    /\ commandBuffer.local # <<>>
    /\ LET cmd == Head(commandBuffer.local)
       IN commandBuffer' = [commandBuffer EXCEPT
                               !.local = Tail(@),
                               !.visited = Append(@, [handler |-> handlerOf(cmd), cmd |-> cmd])]
    /\ lastOp' = [op |-> "visit"]
    /\ OnlyCommands

\* execute returns.
ExecuteReturn ==
    /\ commandBuffer.pc = "visiting"
    /\ commandBuffer.local = <<>>
    /\ commandBuffer' = [commandBuffer EXCEPT !.pc = "idle"]
    /\ lastOp' = [op |-> "executed"]
    /\ OnlyCommands

NextCommands ==
    \/ \E t \in Threads, type \in CommandTypes : EnqueueCommand(t, type)
    \/ ExecuteTake
    \/ ExecuteVisit
    \/ ExecuteReturn

SpecCommands == Init /\ [][NextCommands]_vars

\* ------------------------------------------------- resources of a scene
\* ResourceUtils::GetAllResourcesFromScene.  A content hash is a number, 0
\* the invalid hash; a handle is a number, 0 the invalid handle.
isValid(x) == x # 0
ContentHashes == 0..4

\* The data instances of the scenes: their layout with the effect hash and
\* the fields, and per field the data resource or the texture sampler.
\* Instance 3 is not allocated.
DataField(dataType, hash, sampler) == [dataType |-> dataType, hash |-> hash, sampler |-> sampler]
DataInstances ==
    << [allocated |-> TRUE, effectHash |-> 1,
        fields |-> <<DataField("buffer", 2, 0), DataField("sampler", 0, 1),
                     DataField("float", 0, 0)>>],
       [allocated |-> TRUE, effectHash |-> 0,
        fields |-> <<DataField("buffer", 0, 0), DataField("sampler", 0, 2),
                     DataField("sampler", 0, 0), DataField("sampler", 0, 3)>>],
       [allocated |-> FALSE, effectHash |-> 4,
        fields |-> <<DataField("buffer", 4, 0)>>] >>
InstanceHandles == 0..3

\* The texture samplers: sampler 1 has the texture the scene gives it,
\* sampler 2 is not allocated, sampler 3 has no valid texture.
TextureSamplers(texture) ==
    << [allocated |-> TRUE, textureResource |-> texture],
       [allocated |-> FALSE, textureResource |-> 4],
       [allocated |-> TRUE, textureResource |-> 0] >>

VisibilityModes == {"Off", "Invisible", "Visible"}
RenderableHandles == {1, 2}
DataSlotHandles == {1}
NoRenderable == [allocated |-> FALSE, visibilityMode |-> "Off", dataInstances |-> <<0, 0>>]
Renderable(mode, geometry, uniforms) ==
    [allocated |-> TRUE, visibilityMode |-> mode, dataInstances |-> <<geometry, uniforms>>]
ScenesWithResources ==
    [renderables : [RenderableHandles ->
                       {NoRenderable} \cup
                       {Renderable(mode, g, u) :
                           mode \in VisibilityModes, g \in InstanceHandles, u \in InstanceHandles}],
     dataSlots : [DataSlotHandles -> {[allocated |-> FALSE, attachedTexture |-> 0]} \cup
                                     {[allocated |-> TRUE, attachedTexture |-> h] :
                                         h \in {0, 2, 4}}],
     texture : {0, 3}]

\* Every hash is pushed, the invalid one too.
pushBackIfValid_Always(vec, hash) == Append(vec, hash)

pushBackIfValid(vec, hash) == IF isValid(hash) THEN Append(vec, hash) ELSE vec

\* Lines 50-66: the loop over the fields of the layout of an instance.
RECURSIVE pushFields(_, _, _)
pushFields(vec, scene, fields) ==
    IF fields = <<>> THEN vec
    ELSE LET f == Head(fields)
             samplers == TextureSamplers(scene.texture)
             after ==
                 IF f.dataType = "buffer" THEN pushBackIfValid(vec, f.hash)
                 ELSE IF f.dataType = "sampler"
                 THEN IF isValid(f.sampler) /\ samplers[f.sampler].allocated
                      THEN pushBackIfValid(vec, samplers[f.sampler].textureResource)
                      ELSE vec
                 ELSE vec
         IN pushFields(after, scene, Tail(fields))

\* Lines 41-67: one data instance of a renderable.
pushInstance(vec, scene, instanceHandle) ==
    IF ~isValid(instanceHandle) \/ ~DataInstances[instanceHandle].allocated
    THEN vec
    ELSE pushFields(pushBackIfValid(vec, DataInstances[instanceHandle].effectHash),
                    scene, DataInstances[instanceHandle].fields)

\* Lines 35-68: the loop over the renderables, in the order of their handles.
RECURSIVE pushRenderables(_, _, _)
pushRenderables(vec, scene, handle) ==
    IF handle \notin RenderableHandles THEN vec
    ELSE LET renderable == scene.renderables[handle]
             after ==
                 IF ~renderable.allocated \/ renderable.visibilityMode = "Off"
                 THEN vec
                 ELSE pushInstance(pushInstance(vec, scene, renderable.dataInstances[1]),
                                   scene, renderable.dataInstances[2])
         IN pushRenderables(after, scene, handle + 1)

\* Lines 70-71: the loop over the data slots.
RECURSIVE pushDataSlots(_, _, _)
pushDataSlots(vec, scene, handle) ==
    IF handle \notin DataSlotHandles THEN vec
    ELSE pushDataSlots(IF scene.dataSlots[handle].allocated
                       THEN pushBackIfValid(vec, scene.dataSlots[handle].attachedTexture)
                       ELSE vec,
                       scene, handle + 1)

\* std::sort: the elements in ascending order, each as often as before.
RECURSIVE sort(_)
sort(vec) ==
    IF vec = <<>> THEN <<>>
    ELSE LET least == CHOOSE i \in DOMAIN vec : \A j \in DOMAIN vec : vec[i] <= vec[j]
         IN <<vec[least]>> \o sort(SubSeq(vec, 1, least - 1) \o SubSeq(vec, least + 1, Len(vec)))

\* erase(std::unique(...)): of equal neighbours the first is kept.
RECURSIVE unique(_)
unique(vec) ==
    IF Len(vec) <= 1 THEN vec
    ELSE IF vec[1] = vec[2] THEN unique(Tail(vec))
    ELSE <<vec[1]>> \o unique(Tail(vec))

GetAllResourcesFromScene(scene) ==
    unique(sort(pushDataSlots(pushRenderables(<<>>, scene, 1), scene, 1)))

\* The scene is given; GetAllResourcesFromScene is called on it once.
InitScene ==
    /\ sceneRendererHandler = FALSE
    /\ connected = FALSE
    /\ locallyPublishedScenes = [s \in Scenes |-> NoInfo]
    /\ clientSceneLogicMap = [s \in Scenes |-> NoLogic]
    /\ remoteScenes = [s \in Scenes |-> NoScene]
    /\ failedSession = [s \in Scenes |-> FALSE]
    /\ out = <<>>
    /\ hist = NoHist
    /\ ResourceInit
    /\ \E scene \in ScenesWithResources :
           lastOp = [op |-> "scene", scene |-> scene, resources |-> <<>>]

CollectResources ==
    /\ lastOp.op = "scene"
    /\ lastOp' = [op |-> "GetAllResourcesFromScene", scene |-> lastOp.scene,
                  resources |-> GetAllResourcesFromScene(lastOp.scene)]
    /\ UNCHANGED <<sceneRendererHandler, connected, locallyPublishedScenes, clientSceneLogicMap,
                   remoteScenes, failedSession, out, hist>>
    /\ ResourcesUntouched

NextScene == CollectResources

SpecScene == InitScene /\ [][NextScene]_vars

\* ------------------------------------------------------------------ claims
subscribersOf(s) == Range(clientSceneLogicMap[s].waiting) \cup Range(clientSceneLogicMap[s].active)
IsNet(c) == c.on = "net"
IsRenderer(c, k) == c.on = "renderer" /\ c.k = k

C7_DisconnectedIsNoSubscriber ==
    /\ lastOp.op = "participantHasDisconnected" =>
           \A s \in Scenes : lastOp.who \notin subscribersOf(s)
    /\ lastOp.op = "handleUnsubscribeScene" => lastOp.who \notin subscribersOf(lastOp.scene)

\* Calls of the last operation that concern scene s.
callsAbout(calls, s) == SelectSeq(calls, LAMBDA c : c.scene = s)
announced(infos) == {infos[i].sceneID : i \in DOMAIN infos}
occurrences(infos, s) == Cardinality({i \in DOMAIN infos : infos[i].sceneID = s})
unavailableTo(c, s, p) == IsRenderer(c, "handleSceneBecameUnavailable") /\ c.scene = s /\ c.to = p

\* C2 (as claimed): a handleSceneUpdate whose decoder returned Failed tells the
\* handler that the scene became unavailable and leaves the scene without a
\* usable decoder.
C2_FailedTearsDown ==
    (lastOp.op = "handleSceneUpdate" /\ lastOp.result = "Failed") =>
        /\ \E i \in DOMAIN out : unavailableTo(out[i], lastOp.scene, lastOp.who)
        /\ ~remoteScenes[lastOp.scene].tracked \/ remoteScenes[lastOp.scene].deser.null

\* C3: a handleSceneUpdate for a scene whose decoder instance has returned
\* Failed, in this call or in an earlier one, hands no update to the handler.
C3_FailedIsSticky ==
    (lastOp.op = "handleSceneUpdate" /\ failedSession[lastOp.scene]) =>
        \A i \in DOMAIN out : ~IsRenderer(out[i], "handleSceneUpdate")

\* C3 witness: a well-formed complete record arrived for a scene whose decoder
\* had failed before, and was answered Failed.
C3_Witness ==
    /\ lastOp.op = "handleSceneUpdate"
    /\ lastOp.data = <<0>>
    /\ lastOp.result = "Failed"
    /\ failedSession[lastOp.scene]
    /\ out = <<>>

\* C4: when handleNewScenesAvailable announces a scene tracked with the same
\* provider, the calls about that scene start with handleSceneBecameUnavailable
\* and alternate with handleNewSceneAvailable (one pair per announcement when
\* the feature level matches, the single notice otherwise), and the entry
\* afterwards is a new one without decoder, or none on a feature level mismatch.
C4_Step ==
    lastOp'.op = "handleNewScenesAvailable" =>
        \A s \in announced(lastOp'.infos) :
            (remoteScenes[s].tracked /\ remoteScenes[s].provider = lastOp'.who) =>
                LET about == callsAbout(out', s)
                    n == occurrences(lastOp'.infos, s)
                    same == lastOp'.fl = FeatureLevel
                IN /\ remoteScenes'[s] =
                          IF same
                          THEN ReceivedScene(SceneInfo(s, "LocalAndRemote"), lastOp'.who, NullDeserializer)
                          ELSE NoScene
                   /\ Len(about) = IF ~sceneRendererHandler THEN 0 ELSE IF same THEN 2 * n ELSE 1
                   /\ \A i \in DOMAIN about :
                          IF i % 2 = 1
                          THEN unavailableTo(about[i], s, lastOp'.who)
                          ELSE IsRenderer(about[i], "handleNewSceneAvailable") /\ about[i].to = lastOp'.who

C4_DuplicatePublishIsUnpublishThenPublish == [][C4_Step]_vars

\* C4 witness: a duplicate publication was answered with the unavailability
\* of the old incarnation followed by the availability of the new one.
C4_Witness ==
    /\ lastOp.op = "handleNewScenesAvailable"
    /\ Len(out) >= 2
    /\ unavailableTo(out[1], lastOp.infos[1].sceneID, lastOp.who)
    /\ IsRenderer(out[2], "handleNewSceneAvailable")
    /\ out[2].scene = out[1].scene
    /\ remoteScenes[out[1].scene].deser.null

\* C5: an accepted handleInitializeScene leaves the scene with a fresh, empty
\* decoder, and an entry gets a decoder by an accepted handleInitializeScene
\* only: a new entry has none.
C5_Step ==
    \A s \in Scenes :
        /\ (lastOp'.op = "handleInitializeScene" /\ lastOp'.scene = s
              /\ sceneRendererHandler /\ remoteScenes[s].tracked
              /\ remoteScenes[s].provider = lastOp'.who)
               => remoteScenes'[s].deser = FreshDeserializer
        /\ (remoteScenes'[s].tracked /\ ~remoteScenes'[s].deser.null
              /\ (~remoteScenes[s].tracked \/ remoteScenes[s].deser.null))
               => (lastOp'.op = "handleInitializeScene" /\ lastOp'.scene = s
                     /\ sceneRendererHandler /\ remoteScenes[s].tracked
                     /\ remoteScenes[s].provider = lastOp'.who)

C5_InitializeGivesFreshDecoder == [][C5_Step]_vars

\* C5 witness: a re-initialization discarded the bytes of an incomplete record.
C5_Witness ==
    /\ lastOp.op = "handleInitializeScene"
    /\ lastOp.result = "partialDiscarded"
    /\ remoteScenes[lastOp.scene].deser = FreshDeserializer
    /\ \E i \in DOMAIN out : IsRenderer(out[i], "handleInitializeScene")

\* C6: participantHasDisconnected(P) erases exactly the tracked scenes of
\* provider P, tells the attached handler once per such scene and nothing
\* else, and a second participantHasDisconnected(P) right after makes no call.
C6_Step ==
    lastOp'.op = "participantHasDisconnected" =>
        LET p == lastOp'.who
            mine(s) == remoteScenes[s].tracked /\ remoteScenes[s].provider = p
        IN /\ \A s \in Scenes : remoteScenes'[s] = IF mine(s) THEN NoScene ELSE remoteScenes[s]
           /\ \A s \in Scenes :
                  Count(out', LAMBDA c : unavailableTo(c, s, p)) =
                      IF sceneRendererHandler /\ mine(s) THEN 1 ELSE 0
           /\ Len(out') = IF sceneRendererHandler THEN Cardinality({s \in Scenes : mine(s)}) ELSE 0
           /\ (lastOp.op = "participantHasDisconnected" /\ lastOp.who = p) => out' = <<>>

C6_DisconnectNotifiesOnce == [][C6_Step]_vars

\* C6 witness: a disconnect was reported to the handler for a scene of the
\* provider while a scene of another provider stays tracked.
C6_Witness ==
    /\ lastOp.op = "participantHasDisconnected"
    /\ Len(out) = 1
    /\ \E s \in Scenes : remoteScenes[s].tracked /\ remoteScenes[s].provider # lastOp.who
                         /\ ~remoteScenes[s].deser.null

\* C8: a publication with a feature level other than the local one creates or
\* changes no table entry and announces no scene; scenes of other providers
\* stay as they are, and every scene of the message is still processed: one
\* tracked with the announcing provider is unpublished.
C8_Step ==
    (lastOp'.op = "handleNewScenesAvailable" /\ lastOp'.fl # FeatureLevel) =>
        /\ \A i \in DOMAIN out' : ~IsRenderer(out'[i], "handleNewSceneAvailable")
        /\ \A s \in Scenes :
               /\ remoteScenes'[s].tracked => remoteScenes'[s] = remoteScenes[s]
               /\ (remoteScenes[s].tracked /\ remoteScenes[s].provider # lastOp'.who)
                      => remoteScenes'[s] = remoteScenes[s]
               /\ (remoteScenes[s].tracked /\ remoteScenes[s].provider = lastOp'.who
                     /\ s \in announced(lastOp'.infos))
                      => /\ remoteScenes'[s] = NoScene
                         /\ sceneRendererHandler =>
                                \E i \in DOMAIN out' : unavailableTo(out'[i], s, lastOp'.who)

C8_FeatureLevelMismatchRejected == [][C8_Step]_vars

\* C8 witness: a message of two scenes with a foreign feature level was
\* received while a scene of another provider is tracked; no entry was made
\* for the announced scene that was not tracked.
C8_Witness ==
    /\ lastOp.op = "handleNewScenesAvailable"
    /\ sceneRendererHandler
    /\ lastOp.fl # FeatureLevel
    /\ Len(lastOp.infos) = 2
    /\ \E s \in announced(lastOp.infos) : ~remoteScenes[s].tracked
    /\ \E s \in Scenes : remoteScenes[s].tracked /\ remoteScenes[s].provider # lastOp.who

remoteDestinations(toVec) == {i \in DOMAIN toVec : toVec[i] # MyID}
IsCompress(c) == c.on = "resource" /\ c.k = "compress"

\* C9: a sendSceneUpdate call hands the update, as the in-memory tuple, to the
\* local handler exactly once when the local participant is a destination and
\* a handler is attached, and not at all otherwise; it sends one message per
\* non-local destination and none to the local participant.
C9_LocalFastPath ==
    lastOp.op = "sendSceneUpdate" =>
        /\ Count(out, LAMBDA c : IsRenderer(c, "handleSceneUpdate")) =
               IF MyID \in Range(lastOp.toVec) /\ sceneRendererHandler THEN 1 ELSE 0
        /\ \A i \in DOMAIN out :
               IsRenderer(out[i], "handleSceneUpdate") =>
                   /\ out[i].scene = lastOp.scene
                   /\ out[i].to = MyID
                   /\ out[i].upd.kind = lastOp.upd.kind
                   /\ out[i].upd.ver = lastOp.upd.ver
                   /\ out[i].upd.res = lastOp.upd.res
        /\ \A i \in DOMAIN out : IsNet(out[i]) => out[i].to # MyID
        /\ Count(out, IsNet) = Cardinality(remoteDestinations(lastOp.toVec))

\* C9 witness: the local participant was named before a remote one and the
\* attached handler got the update.
C9_Witness ==
    /\ lastOp.op = "sendSceneUpdate"
    /\ sceneRendererHandler
    /\ Len(lastOp.toVec) = 2
    /\ lastOp.toVec[1] = MyID
    /\ remoteDestinations(lastOp.toVec) # {}
    /\ Len(lastOp.upd.res) > 0
    /\ IsRenderer(out[Len(out)], "handleSceneUpdate")

\* C10: a sendSceneUpdate call with a non-local destination calls
\* compress(Realtime) once on each resource of the update, before its first
\* message; a call without non-local destination compresses nothing.
C10_CompressOncePerCall ==
    lastOp.op = "sendSceneUpdate" =>
        LET res == lastOp.upd.res
            compressed == {i \in DOMAIN out : IsCompress(out[i])}
            sent == {i \in DOMAIN out : IsNet(out[i])}
        IN IF remoteDestinations(lastOp.toVec) = {}
           THEN compressed = {}
           ELSE /\ Cardinality(compressed) = Len(res)
                /\ \A r \in DOMAIN res :
                       Count(out, LAMBDA c : IsCompress(c) /\ c.scene = res[r]
                                             /\ c.level = "Realtime") = 1
                /\ \A i \in compressed, j \in sent : i < j

\* C10 witness: an update of two resources went to two different remote
\* participants.
C10_Witness ==
    /\ lastOp.op = "sendSceneUpdate"
    /\ Len(lastOp.upd.res) = 2
    /\ Cardinality({lastOp.toVec[i] : i \in remoteDestinations(lastOp.toVec)}) = 2
    /\ Count(out, IsCompress) = 2
    /\ Count(out, IsNet) = 2

\* The records of a byte stream read in one piece, up to its first
\* incomplete or unacceptable record.
RECURSIVE recordsOf(_)
recordsOf(bytes) ==
    IF bytes = <<>> THEN <<>>
    ELSE IF Head(bytes) > MaxRecordLen \/ Len(bytes) < 1 + Head(bytes) THEN <<>>
    ELSE <<SubSeq(bytes, 2, 1 + Head(bytes))>>
         \o recordsOf(SubSeq(bytes, 2 + Head(bytes), Len(bytes)))

\* The stream holds a record whose declared length is not acceptable.
RECURSIVE corrupt(_)
corrupt(bytes) ==
    IF bytes = <<>> THEN FALSE
    ELSE IF Head(bytes) > MaxRecordLen THEN TRUE
    ELSE IF Len(bytes) < 1 + Head(bytes) THEN FALSE
    ELSE corrupt(SubSeq(bytes, 2 + Head(bytes), Len(bytes)))

IsPrefix(q, r) == Len(q) <= Len(r) /\ q = SubSeq(r, 1, Len(q))

\* The records forwarded from a decoder session are the records of its byte
\* stream in arrival order; a stream that is corrupt yields a prefix of them.
forwardedInArrivalOrder ==
    IF corrupt(hist.stream)
    THEN IsPrefix(hist.fwd, recordsOf(hist.stream))
    ELSE hist.fwd = recordsOf(hist.stream)

C12_FirstUpdateIsFullSnapshot ==
    \A s \in Scenes, p \in Participants : hist.first[s][p] # "delta"

\* C13 (as claimed): when handleUnpublishScene has taken a scene out of the
\* locally-published table, no party is left that was told the scene is
\* available and has not been told that it is unavailable.
C13_UnpublishReachesEveryoneTold ==
    (lastOp.op = "handleUnpublishScene" /\ locallyPublishedScenes[lastOp.scene] = NoInfo) =>
        hist.told[lastOp.scene] = {}

availableToLocal(c, s) == IsRenderer(c, "handleNewSceneAvailable") /\ c.scene = s /\ c.to = MyID

\* C14: an attached handler has been told of every scene in the
\* locally-published table; sendPublishScene tells an attached handler of the
\* scene once, with the scene info it was given, in any mode and whether
\* connected or not, and tells nobody without a handler; attaching a handler
\* tells it once of every scene in the table, with the info of the table, and
\* of no other scene.
C14_AttachedHandlerKnowsPublishedScenes ==
    /\ sceneRendererHandler =>
           \A s \in Scenes : locallyPublishedScenes[s] # NoInfo => MyID \in hist.told[s]
    /\ lastOp.op = "sendPublishScene" =>
           /\ Count(out, LAMBDA c : c.on = "renderer") = IF sceneRendererHandler THEN 1 ELSE 0
           /\ sceneRendererHandler =>
                  /\ availableToLocal(out[1], lastOp.scene)
                  /\ out[1].infos = <<SceneInfo(lastOp.scene, lastOp.mode)>>
    /\ (lastOp.op = "setSceneRendererHandler" /\ lastOp.attach) =>
           /\ \A s \in Scenes :
                  Count(out, LAMBDA c : availableToLocal(c, s) /\ c.infos = <<locallyPublishedScenes[s]>>) =
                      IF locallyPublishedScenes[s] # NoInfo THEN 1 ELSE 0
           /\ Len(out) = Cardinality({s \in Scenes : locallyPublishedScenes[s] # NoInfo})

\* C14 witness: a handler was attached while not connected and was told of
\* two scenes published before, one in each publication mode.
C14_Witness ==
    /\ lastOp.op = "setSceneRendererHandler"
    /\ lastOp.attach
    /\ ~connected
    /\ Len(out) = 2
    /\ {locallyPublishedScenes[s].mode : s \in Scenes} = PublicationModes
    /\ \A s \in Scenes : MyID \in hist.told[s]

\* The members of q at the positions in keep, in the order of q.
RECURSIVE pick(_, _, _)
pick(q, keep, i) ==
    IF i > Len(q) THEN <<>>
    ELSE (IF i \in keep THEN <<q[i]>> ELSE <<>>) \o pick(q, keep, i + 1)

\* Position i of the batch can be resolved from the state before the call:
\* the payload is live, or a registered file lists the hash and a read of
\* it up to this position delivers the resource.
resolvableAt(hashes, reads, i) ==
    \/ resourceStorage[hashes[i]].resource
    \/ /\ getEntry(resourceFiles, hashes[i])
       /\ \E j \in 1..i : hashes[j] = hashes[i] /\ reads[j]

C15_ResolveStep ==
    lastOp'.op = "resolveResources" =>
        LET hashes == lastOp'.hashes
            ok == {i \in DOMAIN hashes : resolvableAt(hashes, lastOp'.reads, i)}
        IN /\ lastOp'.result = pick(hashes, ok, 1)
           /\ lastOp'.failed = pick(hashes, DOMAIN hashes \ ok, 1)
           /\ Len(lastOp'.result) + Len(lastOp'.failed) = Len(hashes)
           /\ \A h \in Hashes :
                  /\ resourceStorage'[h].refCount =
                         resourceStorage[h].refCount + Cardinality({i \in ok : hashes[i] = h})
                  /\ h \in Range(lastOp'.result) => resourceStorage'[h].resource

\* C15: resolveResources resolves every hash of the batch on its own: the
\* result holds one handle, in input order, for exactly the positions whose
\* hash is cached or can be loaded from a registered file, the other
\* positions are collected as failed, and the two together are the batch.
C15_EveryHashResolvedIndependently == [][C15_ResolveStep]_vars

\* C15 witness: the first hash of a batch of two failed to load, the second
\* one was loaded from its file and returned.
C15_Witness ==
    /\ lastOp.op = "resolveResources"
    /\ Len(lastOp.hashes) = 2
    /\ lastOp.failed = <<lastOp.hashes[1]>>
    /\ lastOp.result = <<lastOp.hashes[2]>>
    /\ lastOp.loaded = {lastOp.hashes[2]}
    /\ resourceStorage[lastOp.hashes[2]].resource

C16_MissStep ==
    (lastOp'.op = "getResource" /\ ~resourceStorage[lastOp'.hashes[1]].resource) =>
        /\ lastOp'.result = <<>>
        /\ UNCHANGED <<resourceStorage, resourceFiles>>

\* C16: getResource of a hash without a live payload returns the empty
\* handle and changes neither the storage (entries, reference counts) nor the
\* file registry; nothing is loaded, whether or not a registered file lists
\* the hash.
C16_GetResourceMissChangesNothing == [][C16_MissStep]_vars

\* C16 witness: getResource missed a hash that a scene object uses and that
\* a registered file lists; the payload is still not live.
C16_Witness ==
    /\ lastOp.op = "getResource"
    /\ lastOp.result = <<>>
    /\ getEntry(resourceFiles, lastOp.hashes[1])
    /\ resourceStorage[lastOp.hashes[1]].hashUsage
    /\ ~resourceStorage[lastOp.hashes[1]].resource

\* The last operation loaded payloads from a registered file.
loadedFromFile == lastOp.op \in {"resolveResources", "loadResourceFromFile"} /\ lastOp.loaded # {}

\* C17 as claimed: a payload loaded from a registered file, by
\* resolveResources or by loadResourceFromFile, leaves its entry with the
\* deletion-allowed flag cleared.
C17_LoadClearsDeletionAllowed ==
    loadedFromFile => \A h \in lastOp.loaded : ~resourceStorage[h].deletionAllowed

\* C17: a payload loaded from a registered file is live afterwards; loaded
\* by resolveResources its entry has the deletion-allowed flag set, loaded
\* by loadResourceFromFile its entry has the flag cleared.
C17_OnlyForcedLoadClearsDeletionAllowed ==
    loadedFromFile =>
        \A h \in lastOp.loaded :
            /\ resourceStorage[h].resource
            /\ resourceStorage[h].deletionAllowed = (lastOp.op = "resolveResources")

\* C17 witness: loadResourceFromFile has loaded a payload, whose flag is
\* cleared, while the payload of another hash that resolveResources loaded
\* from a file is live with its flag set.
C17_Witness ==
    /\ lastOp.op = "loadResourceFromFile"
    /\ \E h \in lastOp.loaded, g \in Hashes \ lastOp.loaded :
           /\ ~resourceStorage[h].deletionAllowed
           /\ resourceStorage[h].resource
           /\ resourceStorage[g].resource
           /\ resourceStorage[g].deletionAllowed
           /\ getEntry(resourceFiles, g)

\* The hash is referenced by a hash usage or held as a resource.
inUse(h) == resourceStorage[h].hashUsage \/ resourceStorage[h].refCount > 0

\* The resources of the file that loadResourceFromFile was called for.
forcedFile == resourceFiles.file[lastOp.handle].toc
afterForcedLoad ==
    lastOp.op = "loadResourceFromFile" /\ hasResourceFile(resourceFiles, lastOp.handle)

\* C18 as claimed: after loadResourceFromFile on a registered file every
\* resource of the file that is in use has its payload live and its
\* deletion-allowed flag cleared, and the resources of the file that are not
\* in use have no payload in the storage.
C18_InUseResourcesOfFileAreLive ==
    afterForcedLoad =>
        \A h \in forcedFile :
            IF inUse(h)
            THEN resourceStorage[h].resource /\ ~resourceStorage[h].deletionAllowed
            ELSE ~resourceStorage[h].resource /\ h \notin lastOp.loaded

\* C18: after loadResourceFromFile on a registered file every resource of
\* the file that is in use has its deletion-allowed flag cleared, and has
\* its payload live unless reading its entry failed; the resources of the
\* file that are not in use are not loaded and have no payload in the
\* storage.
C18_InUseResourcesLiveUnlessReadFails ==
    afterForcedLoad =>
        \A h \in forcedFile :
            IF inUse(h)
            THEN /\ ~resourceStorage[h].deletionAllowed
                 /\ resourceStorage[h].resource = lastOp.reads[h]
            ELSE ~resourceStorage[h].resource /\ h \notin lastOp.loaded

\* C18 witness: of a file of two resources, the one that only a hash usage
\* refers to was loaded and stays live, the other one is not in use and has
\* no payload.
C18_Witness ==
    /\ afterForcedLoad
    /\ forcedFile = Hashes
    /\ \E h \in lastOp.loaded, g \in Hashes :
           /\ resourceStorage[h].resource
           /\ resourceStorage[h].refCount = 0
           /\ resourceStorage[h].hashUsage
           /\ ~resourceStorage[h].deletionAllowed
           /\ ~inUse(g)
           /\ ~resourceStorage[g].resource

C19_RemoveStep ==
    lastOp'.op = "removeResourceFile" =>
        /\ ~hasResourceFile(resourceFiles', lastOp'.handle)
        /\ UNCHANGED resourceStorage
        /\ \A h \in Hashes : resourceStorage[h].refCount > 0 => resourceStorage'[h].resource

C19_ResolveStep ==
    lastOp'.op = "resolveResources" =>
        \A i \in DOMAIN lastOp'.hashes :
            LET h == lastOp'.hashes[i]
            IN (~resourceStorage[h].resource /\ ~getEntry(resourceFiles, h)) =>
                   /\ h \in Range(lastOp'.failed)
                   /\ h \notin Range(lastOp'.result)
                   /\ ~resourceStorage'[h].resource

\* C19: after removeResourceFile the handle is no registered file any more
\* and the storage is as before, so a payload loaded from the file stays
\* live while a handle refers to it; resolveResources of a hash that has no
\* live payload and that no registered file lists reports the hash as failed
\* and returns no handle for it.
C19_RemovedFileBacksNothing == [][C19_RemoveStep /\ C19_ResolveStep]_vars

\* C19 witness: after the only file that listed them was removed, a hash
\* that was not loaded failed to resolve although a scene object uses it,
\* while the payload loaded from that file for another hash is still live
\* and held.
C19_Witness ==
    /\ lastOp.op = "resolveResources"
    /\ lastOp.result = <<>>
    /\ \A f \in FileHandles : ~hasResourceFile(resourceFiles, f)
    /\ \E h, g \in Hashes :
           /\ lastOp.failed = <<h>>
           /\ resourceStorage[h].info
           /\ resourceStorage[h].hashUsage
           /\ resourceStorage[g].info
           /\ resourceStorage[g].resource
           /\ resourceStorage[g].deletionAllowed
           /\ resourceStorage[g].refCount > 0

C20_AddStep ==
    lastOp'.op = "addResourceFile" =>
        LET f == lastOp'.handle
            toc == resourceFiles'.file[f].toc
        IN /\ hasResourceFile(resourceFiles', f)
           /\ ~hasResourceFile(resourceFiles, f)
           /\ \A g \in FileHandles \ {f} : resourceFiles'.file[g] = resourceFiles.file[g]
           /\ \A h \in toc : resourceStorage'[h].info /\ getEntry(resourceFiles', h)
           /\ \A h \in Hashes :
                  /\ getResource(resourceStorage', h).handle = getResource(resourceStorage, h).handle
                  /\ resourceStorage'[h] =
                         [resourceStorage[h] EXCEPT !.info = @ \/ h \in toc]

\* C20: addResourceFile records the metadata of every entry of the table of
\* contents and registers the file, so that every hash of the file is
\* listed by a registered file and hasResourceFile of the returned handle is
\* true; no payload is attached: for every hash getResource gives what it
\* gave before, and apart from the metadata the storage is as before.
C20_AddResourceFileAttachesNoPayload == [][C20_AddStep]_vars

\* C20 witness: a second file was registered; one of its hashes is used by
\* a scene object and still has no payload, another hash has its payload
\* live from before.
C20_Witness ==
    /\ lastOp.op = "addResourceFile"
    /\ lastOp.handle = 2
    /\ hasResourceFile(resourceFiles, 2)
    /\ \E h \in resourceFiles.file[2].toc, g \in Hashes :
           /\ resourceStorage[h].info
           /\ resourceStorage[h].hashUsage
           /\ ~resourceStorage[h].resource
           /\ resourceStorage[g].resource

\* The payloads that the step has made live.
madeLive == {h \in Hashes : ~resourceStorage[h].resource /\ resourceStorage'[h].resource}

C21_ResolveStep ==
    lastOp'.op = "resolveResources" =>
        LET hashes == lastOp'.hashes
            reads == lastOp'.reads
        IN \A i \in DOMAIN hashes :
               ~reads[i] =>
                   /\ hashes[i] \in Range(lastOp'.failed)
                   /\ resourceStorage'[hashes[i]].resource =
                          (\E j \in (i + 1)..Len(hashes) : hashes[j] = hashes[i] /\ reads[j])
                   /\ \A j \in (i + 1)..Len(hashes) :
                          (reads[j] /\ getEntry(resourceFiles, hashes[j])) =>
                              /\ hashes[j] \in Range(lastOp'.result)
                              /\ resourceStorage'[hashes[j]].resource

C21_ForcedLoadStep ==
    lastOp'.op = "loadResourceFromFile" =>
        \A h \in Hashes :
            ~lastOp'.reads[h] =>
                /\ ~resourceStorage'[h].resource
                /\ resourceStorage'[h].refCount = resourceStorage[h].refCount
                /\ \A g \in resourceFiles.file[lastOp'.handle].toc :
                       (lastOp'.reads[g] /\ isFileResourceInUseAnywhereElse(resourceStorage, g)) =>
                           resourceStorage'[g].resource

\* C21: a read of a resource from a registered file that fails yields the
\* empty handle and attaches no payload; the load statistic counts exactly
\* the payloads made live; the file registry is unchanged, so that a later
\* load of another hash of a registered file, or of the same hash once its
\* read delivers, succeeds.
C21_FailedReadLeavesIndexIntact ==
    [][/\ lastOp'.op \in {"resolveResources", "loadResourceFromFile"} =>
              /\ UNCHANGED resourceFiles
              /\ lastOp'.stat = Cardinality(madeLive)
        /\ C21_ResolveStep
        /\ C21_ForcedLoadStep]_vars

\* C21 witness: in one batch the first read of a hash failed and the second
\* read of the same hash delivered: one failure, one handle, one load
\* counted.
C21_Witness ==
    /\ lastOp.op = "resolveResources"
    /\ Len(lastOp.hashes) = 2
    /\ lastOp.hashes[1] = lastOp.hashes[2]
    /\ lastOp.reads = <<FALSE, TRUE>>
    /\ lastOp.failed = <<lastOp.hashes[1]>>
    /\ lastOp.result = <<lastOp.hashes[1]>>
    /\ lastOp.stat = 1
    /\ resourceStorage[lastOp.hashes[1]].resource

holders(h) == {t \in Threads : inFlight.call[t].pc = "holding" /\ inFlight.call[t].hash = h}
entering(h) == {t \in Threads : inFlight.call[t].pc = "manage" /\ inFlight.call[t].hash = h}

\* C23: however the calls of the threads interleave, the reference count of
\* a hash is the number of handles that are held, every handle refers to the
\* one live payload of its hash, and the objects of a hash that exist are
\* that payload and the objects of the calls that have not entered the
\* storage yet: once every call has returned there is exactly one.
C23_OneLivePayloadPerHash ==
    \A h \in Hashes :
        /\ resourceStorage[h].refCount = Cardinality(holders(h))
        /\ holders(h) # {} =>
               /\ resourceStorage[h].resource
               /\ inFlight.payload[h] # NoObject
               /\ \A t \in holders(h) : inFlight.call[t].handle = inFlight.payload[h]
        /\ inFlight.objects[h] =
               (IF inFlight.payload[h] # NoObject THEN {inFlight.payload[h]} ELSE {})
                   \cup {inFlight.call[t].obj : t \in entering(h)}
        /\ (holders(h) # {} /\ entering(h) = {}) => Cardinality(inFlight.objects[h]) = 1

\* C23 witness: a manageResource call and a loadResource call for the same
\* hash have both returned; each brought its own object, both handles refer
\* to the same payload and the reference count is two.
C23_Witness ==
    /\ inFlight.call[1].pc = "holding"
    /\ inFlight.call[2].pc = "holding"
    /\ inFlight.call[1].hash = inFlight.call[2].hash
    /\ {inFlight.call[1].op, inFlight.call[2].op} = {"manageResource", "loadResource"}
    /\ inFlight.call[1].obj # inFlight.call[2].obj
    /\ inFlight.call[1].handle = inFlight.call[2].handle
    /\ resourceStorage[inFlight.call[1].hash].refCount = 2
    /\ Cardinality(inFlight.objects[inFlight.call[1].hash]) = 1

\* The bytes a resource value stands for, whichever representation it has.
content(res) ==
    IF isDeCompressedAvailable(res) THEN res.data ELSE decompressBuffer(res.compressed)

compressible(res) == sizeOf(content(res)) > CompressionThreshold

CompressStep(v) == lastOp'.op = "compress" /\ lastOp'.value = v

\* C24: a compress call never lowers the level of the compressed buffer; on
\* a value with compressible payload compress(L) replaces the buffer by the
\* one of level L exactly when L is above the cached level, and leaves the
\* buffer as it is, byte for byte, when L is lower or equal.
C24_CompressStep ==
    \A v \in Values :
        CompressStep(v) =>
            LET pre == resources[v]
                post == resources'[v]
                L == lastOp'.level
            IN /\ post.level >= pre.level
               /\ compressible(pre) =>
                      IF L > pre.level
                      THEN /\ post.level = L
                           /\ post.compressed = compressBuffer(content(pre), L)
                      ELSE /\ post.level = pre.level
                           /\ post.compressed = pre.compressed

C24_CompressionLevelNeverDecreases == [][C24_CompressStep]_vars

\* C24 witness: compress(Realtime) has just run on a value that holds the
\* Offline buffer of its data, which differs from the Realtime buffer, and
\* the value still holds the Offline buffer.
C24_Witness ==
    \E v \in Values :
        /\ lastOp.op = "compress" /\ lastOp.value = v /\ lastOp.level = Realtime
        /\ isDeCompressedAvailable(resources[v])
        /\ resources[v].level = Offline
        /\ resources[v].compressed = compressBuffer(resources[v].data, Offline)
        /\ resources[v].compressed # compressBuffer(resources[v].data, Realtime)

\* C25: compress on data of 1 to 1000 bytes, whatever the level, leaves no
\* compressed buffer, and compress(None) changes nothing at any size; no
\* value whose data is that small ever has a compressed buffer.
C25_CompressStep ==
    \A v \in Values :
        CompressStep(v) =>
            LET pre == resources[v]
                post == resources'[v]
            IN /\ (isDeCompressedAvailable(pre) /\ sizeOf(pre.data) <= CompressionThreshold) =>
                      /\ ~isCompressedAvailable(post)
                      /\ post = pre
               /\ lastOp'.level = LevelNone => post = pre

C25_NoCompressionWithoutBenefit == [][C25_CompressStep]_vars

\* C25 witness: compress(Offline) has just run on data of exactly 1000
\* bytes, and compress(None) could run on data of 1001 bytes that has no
\* compressed buffer; neither value has a compressed buffer.
C25_Witness ==
    \E v \in Values, w \in Values :
        /\ lastOp.op = "compress" /\ lastOp.value = v /\ lastOp.level = Offline
        /\ sizeOf(resources[v].data) = CompressionThreshold
        /\ ~isCompressedAvailable(resources[v])
        /\ sizeOf(resources[w].data) = CompressionThreshold + 1
        /\ ~isCompressedAvailable(resources[w])
        /\ ~isCompressedAvailable(compress(resources[w], LevelNone))

SetDataStep(v) == lastOp'.op = "setResourceData" /\ lastOp'.value = v

\* C26 as stated: after setResourceData the value has no compressed buffer,
\* and compress at Realtime or at Offline gives it one, whatever the new data.
C26_CompressAfterNewDataAlwaysCompresses ==
    [][\A v \in Values :
          SetDataStep(v) =>
              /\ ~isCompressedAvailable(resources'[v])
              /\ \A L \in {Realtime, Offline} :
                     isCompressedAvailable(compress(resources'[v], L))]_vars

\* C26: after setResourceData, with or without a hash, the value has no
\* compressed buffer; compress at Realtime or at Offline, whatever the level
\* of the buffer that was dropped, then gives it the buffer of the new data
\* at that level when the new data is above the threshold of 1000 bytes,
\* and none when it is not.
C26_SetDataStep ==
    \A v \in Values :
        SetDataStep(v) =>
            LET post == resources'[v]
            IN /\ ~isCompressedAvailable(post)
               /\ \A L \in {Realtime, Offline} :
                      IF sizeOf(post.data) > CompressionThreshold
                      THEN /\ compress(post, L).compressed = compressBuffer(post.data, L)
                           /\ compress(post, L).level = L
                           /\ isCompressedAvailable(compress(post, L))
                      ELSE ~isCompressedAvailable(compress(post, L))

C26_NewDataDiscardsCompressedBuffer == [][C26_SetDataStep]_vars

\* C26 witness: setResourceData has just replaced data that was compressed
\* at Offline by new data above the threshold; the value has no compressed
\* buffer, and compress(Realtime) gives it one.
C26_Witness ==
    \E v \in Values :
        /\ lastOp.op = "setResourceData" /\ lastOp.value = v /\ lastOp.level = Offline
        /\ sizeOf(resources[v].data) > CompressionThreshold
        /\ ~isCompressedAvailable(resources[v])
        /\ isCompressedAvailable(compress(resources[v], Realtime))

\* A value built from a compressed buffer holds, once it has decompressed
\* data, the blob that buffer was made of, of the declared size.
roundTrips(res) ==
    (res.builtFrom # NoData /\ isDeCompressedAvailable(res)) =>
        /\ res.data = res.builtFrom
        /\ sizeOf(res.data) = res.decompressedSize

\* decompress runs on value v right after compress(level >= Realtime) ran on it.
CompressThenDecompress(v) ==
    /\ lastOp.op = "compress" /\ lastOp.value = v /\ lastOp.level >= Realtime
    /\ lastOp'.op = "decompress" /\ lastOp'.value = v
    /\ isDeCompressedAvailable(resources[v])

C27_RoundTripStep ==
    \A v \in Values :
        /\ roundTrips(resources'[v])
        /\ CompressThenDecompress(v) =>
               /\ resources'[v].data = resources[v].data
               /\ isDeCompressedAvailable(resources'[v])
               /\ isCompressedAvailable(resources'[v])
                      <=> sizeOf(resources[v].data) > CompressionThreshold
               /\ isCompressedAvailable(resources'[v]) =>
                      decompressBuffer(resources'[v].compressed) = resources'[v].data

hasContent(res) == isDeCompressedAvailable(res) \/ isCompressedAvailable(res)

inside(t, v) == workers.thread[t].pc = "inside" /\ workers.thread[t].value = v

\* The ways to put the calls of two threads in one order.
RECURSIVE Merges(_, _)
Merges(a, b) ==
    IF a = <<>> THEN {b}
    ELSE IF b = <<>> THEN {a}
    ELSE {<<Head(a)>> \o m : m \in Merges(Tail(a), b)}
             \cup {<<Head(b)>> \o m : m \in Merges(a, Tail(b))}

\* Value v after the calls of the sequence that are made on it, one by one.
RECURSIVE applyAll(_, _, _)
applyAll(res, calls, v) ==
    IF calls = <<>> THEN res
    ELSE applyAll(IF Head(calls).value = v THEN apply(Head(calls), res) ELSE res,
                  Tail(calls), v)

C30_UpdateStep ==
    lastOp'.op = "handleSceneUpdate" =>
        LET s == lastOp'.scene
            actionData == lastOp'.data
            before == remoteScenes[s]
        IN /\ (\E i \in DOMAIN out' : IsRenderer(out'[i], "handleSceneUpdate")) =>
                  /\ sceneRendererHandler
                  /\ before.tracked
                  /\ actionData # <<>>
                  /\ ~before.deser.null
           /\ (~before.tracked \/ before.deser.null \/ actionData = <<>>) =>
                  /\ out' = <<>>
                  /\ remoteScenes' = remoteScenes
                  /\ sceneRendererHandler' = sceneRendererHandler
                  /\ failedSession' = failedSession

C30_UninitializedUpdateIsDropped == [][C30_UpdateStep]_vars

\* C30 witness: with a handler attached, an update with data from the
\* provider of a tracked scene that has no decoder was dropped, while
\* another scene has its decoder.
C30_Witness ==
    /\ lastOp.op = "handleSceneUpdate"
    /\ lastOp.result = "-"
    /\ lastOp.data # <<>>
    /\ sceneRendererHandler
    /\ remoteScenes[lastOp.scene].tracked
    /\ remoteScenes[lastOp.scene].provider = lastOp.who
    /\ remoteScenes[lastOp.scene].deser.null
    /\ out = <<>>
    /\ \E s2 \in Scenes \ {lastOp.scene} :
           remoteScenes[s2].tracked /\ ~remoteScenes[s2].deser.null

\* The step is a subscribe or unsubscribe request that reaches the
\* component: from the network, or from the local consumer for itself.
IsSubscriptionRequest(op) ==
    \/ op.op \in {"handleSubscribeScene", "handleUnsubscribeScene"}
    \/ op.op \in {"subscribeScene", "unsubscribeScene"} /\ op.who = MyID

\* C31: a subscribe or unsubscribe request for a scene that has no scene
\* logic changes the subscribers of no scene, creates no scene logic and
\* sends nothing.
C31_RequestStep ==
    (IsSubscriptionRequest(lastOp') /\ ~clientSceneLogicMap[lastOp'.scene].exists) =>
        /\ clientSceneLogicMap' = clientSceneLogicMap
        /\ out' = <<>>
        /\ UNCHANGED <<locallyPublishedScenes, remoteScenes, sceneRendererHandler, connected>>

C31_UnknownSceneRequestIsDropped == [][C31_RequestStep]_vars

\* C31 witness: a subscribe request from a remote participant for a scene
\* without scene logic has just been handled, while another scene has its
\* logic and a subscriber; nothing was sent.
C31_Witness ==
    /\ lastOp.op = "handleSubscribeScene"
    /\ lastOp.who \in Remotes
    /\ ~clientSceneLogicMap[lastOp.scene].exists
    /\ out = <<>>
    /\ \E s \in Scenes \ {lastOp.scene} :
           /\ clientSceneLogicMap[s].exists
           /\ getWaitingAndActiveSubscribers(clientSceneLogicMap[s]) # <<>>

\* The scenes of the message that are tracked with another provider than
\* the sender of the message.
foreignScenes(op) ==
    {s \in scenesNamed(op.infos) :
        remoteScenes[s].tracked /\ remoteScenes[s].provider # op.who}

\* C32: a handleNewScenesAvailable step leaves every scene of its message
\* that is tracked with another provider as it is, with its provider, its
\* scene info and its decoder, and makes no call on the consumer about it.
C32_PublishStep ==
    lastOp'.op = "handleNewScenesAvailable" =>
        \A s \in foreignScenes(lastOp') :
            /\ remoteScenes'[s] = remoteScenes[s]
            /\ failedSession'[s] = failedSession[s]
            /\ \A i \in DOMAIN out' : out'[i].scene # s

C32_ForeignPublicationIsDropped == [][C32_PublishStep]_vars

\* C32 witness: with a handler attached, a publication of the local
\* feature level named a scene that is tracked, with its decoder, for
\* another provider; the entry is there as before and nothing was called.
C32_Witness ==
    /\ lastOp.op = "handleNewScenesAvailable"
    /\ lastOp.fl = FeatureLevel
    /\ sceneRendererHandler
    /\ out = <<>>
    /\ \E i \in DOMAIN lastOp.infos :
           LET e == remoteScenes[lastOp.infos[i].sceneID]
           IN e.tracked /\ e.provider # lastOp.who /\ ~e.deser.null

\* The event that reaches the producer with the operation, in a sequence:
\* the event sent to the local participant, the event read from the data
\* of a renderer event; none for an event sent to a remote participant and
\* for data that holds no event.
arrivingEvent(op) ==
    IF op.op \in {"sendSceneReferenceEvent", "sendResourceAvailabilityEvent"}
    THEN (IF op.who = MyID THEN op.data ELSE <<>>)
    ELSE IF op.op = "handleRendererEvent" /\ Len(op.data) >= 1
    THEN (IF op.data[1] = "SceneReferencingEvent"
          THEN <<readSceneReferenceEvent(op.scene, op.data)>>
          ELSE IF op.data[1] = "ResourcesAvailableAtRendererEvent"
          THEN <<readResourceAvailabilityEvent(op.data)>>
          ELSE <<>>)
    ELSE <<>>

\* C33: an event that reaches the producer is handed, as the one call of
\* the step, to the event consumer registered for the scene of the event,
\* after the events that consumer has got before; the consumers of the
\* other scenes get nothing.  An event for a scene without a registered
\* consumer is handed to nobody, and no scene's state changes.
C33_EventStep ==
    arrivingEvent(lastOp') # <<>> =>
        LET e == arrivingEvent(lastOp')[1]
            registered == e.scene \in sceneEventConsumers
        IN /\ \A i \in DOMAIN out' : out'[i].on = "consumer"
           /\ hist'.handed =
                  [s \in Scenes |->
                      IF s = e.scene /\ registered
                      THEN Append(hist.handed[s], e) ELSE hist.handed[s]]
           /\ Len(out') = IF registered THEN 1 ELSE 0
           /\ clientSceneLogicMap' = clientSceneLogicMap
           /\ \A s \in Scenes \ sceneEventConsumers : hist'.handed[s] = <<>>

C33_EventsRoutedInOrder == [][C33_EventStep]_vars

\* C33 witness: the consumer of scene 1 has got two different events, one
\* of each kind, the last of them from the network; an event for scene 2,
\* which has no consumer, would be dropped.
C33_Witness ==
    /\ lastOp.op = "handleRendererEvent"
    /\ Len(hist.handed[1]) = 2
    /\ hist.handed[1][1].type # hist.handed[1][2].type
    /\ out # <<>>
    /\ 2 \notin sceneEventConsumers

\* C33 witness of the dropped event: an event for a scene whose consumer
\* was removed arrived, after the consumer of the other scene got one.
C33_WitnessDropped ==
    /\ arrivingEvent(lastOp) # <<>>
    /\ arrivingEvent(lastOp)[1].scene \notin sceneEventConsumers
    /\ out = <<>>
    /\ \E s \in sceneEventConsumers : hist.handed[s] # <<>>

\* The commands of thread t among the calls made on the visitor.
visitedOf(t) ==
    LET calls == SelectSeq(commandBuffer.visited, LAMBDA c : c.cmd.thread = t)
    IN [i \in DOMAIN calls |-> calls[i].cmd]

\* C34: every call on the visitor is on the handler of the type of its
\* command; the commands of each thread are visited in the order the
\* thread enqueued them, none twice; while an execute runs it has visited
\* no command enqueued after it took the buffer, and when it has returned
\* it has visited every command that was enqueued before it started.
C34_CommandsDeliveredOnceInOrder ==
    /\ \A i \in DOMAIN commandBuffer.visited :
           LET c == commandBuffer.visited[i]
           IN c.handler = handlerOf(c.cmd) /\ c.cmd.type \in CommandTypes
    /\ \A t \in Threads :
           /\ Len(visitedOf(t)) <= commandBuffer.mark[t]
           /\ visitedOf(t) = SubSeq(commandBuffer.enq[t], 1, Len(visitedOf(t)))
           /\ commandBuffer.pc = "idle" => Len(visitedOf(t)) = commandBuffer.mark[t]

\* C34 witness: two threads have enqueued three commands, interleaved;
\* the commands were visited in that order, by handlers of different
\* types, and the execute has returned.
C34_Witness ==
    /\ lastOp.op = "executed"
    /\ Len(commandBuffer.visited) = MaxCommands
    /\ Len(commandBuffer.enq[1]) = 2
    /\ Len(commandBuffer.enq[2]) = 1
    /\ commandBuffer.visited[1].cmd.thread = 1
    /\ commandBuffer.visited[2].cmd.thread = 2
    /\ commandBuffer.visited[3].cmd.thread = 1
    /\ commandBuffer.visited[1].handler # commandBuffer.visited[3].handler

\* C35: a setSceneRendererHandler step that completes replaces no attached
\* handler by another one and happens while no remote scene is tracked;
\* it sets the handler it was given and leaves the remote scenes alone.
C35_SetHandlerStep ==
    lastOp'.op = "setSceneRendererHandler" =>
        /\ ~(sceneRendererHandler /\ lastOp'.attach)
        /\ \A s \in Scenes : ~remoteScenes[s].tracked
        /\ sceneRendererHandler' = lastOp'.attach
        /\ remoteScenes' = remoteScenes

scenesOfOthers(op) ==
    {s \in (IF op.op = "handleScenesBecameUnavailable" THEN scenesNamed(op.infos)
            ELSE {op.scene}) :
        remoteScenes[s].tracked /\ remoteScenes[s].provider # op.who}

\* C36: an initialize, update or scenes-became-unavailable message leaves
\* every tracked scene it names whose provider is not the sender as it is,
\* with its provider and its decoder, and makes no call on the consumer
\* about it.
C36_MessageStep ==
    lastOp'.op \in {"handleInitializeScene", "handleSceneUpdate",
                    "handleScenesBecameUnavailable"} =>
        \A s \in scenesOfOthers(lastOp') :
            /\ remoteScenes'[s] = remoteScenes[s]
            /\ \A i \in DOMAIN out' : out'[i].scene # s

C36_OnlyProviderAffectsScene == [][C36_MessageStep]_vars

\* The remote scenes the attached handler believes available.
believedAvailable == {s \in Scenes : MyID \in hist.told[s]}

scenesOnNetwork ==
    {s \in Scenes : locallyPublishedScenes[s] # NoInfo
                    /\ locallyPublishedScenes[s].mode # "LocalOnly"}

\* C38: a disconnectFromNetwork step leaves in every scene logic, of a
\* published scene or not, the local participant where it was, waiting or
\* active, and no other subscriber; it makes one call, the unavailability
\* broadcast of exactly the locally published scenes whose mode is not
\* LocalOnly, or none when there is no such scene; the locally published
\* scenes, the remote scenes and the handler are unchanged.  While the
\* component is not connected no step broadcasts an availability.
C38_DisconnectStep ==
    /\ lastOp'.op = "disconnectFromNetwork" =>
           /\ \A s \in Scenes :
                  /\ clientSceneLogicMap'[s].exists = clientSceneLogicMap[s].exists
                  /\ Range(clientSceneLogicMap'[s].waiting) =
                         Range(clientSceneLogicMap[s].waiting) \cap {MyID}
                  /\ Range(clientSceneLogicMap'[s].active) =
                         Range(clientSceneLogicMap[s].active) \cap {MyID}
           /\ IF scenesOnNetwork = {} THEN out' = <<>>
              ELSE /\ Len(out') = 1
                   /\ out'[1].on = "net"
                   /\ out'[1].k = "broadcastScenesBecameUnavailable"
                   /\ scenesNamed(out'[1].infos) = scenesOnNetwork
                   /\ Len(out'[1].infos) = Cardinality(scenesOnNetwork)
           /\ UNCHANGED <<locallyPublishedScenes, remoteScenes, sceneRendererHandler>>
           /\ ~connected'
    /\ ~connected =>
           \A i \in DOMAIN out' :
               ~(out'[i].on = "net" /\ out'[i].k = "broadcastNewScenesAvailable")

C38_DisconnectRemovesRemoteSubscribers == [][C38_DisconnectStep]_vars

\* C38 witness: the disconnect broadcast the unavailability of a scene
\* whose logic keeps the local participant as a subscriber, with the
\* handler attached.
C38_Witness ==
    /\ lastOp.op = "disconnectFromNetwork"
    /\ out # <<>>
    /\ sceneRendererHandler
    /\ \E s \in scenesOnNetwork : subscribersOf(s) = {MyID}

\* C39: a sendCreateScene step for a scene that is not in the locally
\* published table makes no call: no handleInitializeScene on the handler,
\* no sendInitializeScene to a participant.
C39_CreateStep ==
    (lastOp'.op = "sendCreateScene" /\ locallyPublishedScenes[lastOp'.scene] = NoInfo)
        => out' = <<>>

C39_UnpublishedSceneIsNotInitialized == [][C39_CreateStep]_vars

\* The hashes the data instance refers to: the effect of its layout, the
\* data resources of its buffer fields, the textures of the allocated
\* samplers of its sampler fields.
hashesOfInstance(scene, h) ==
    IF ~isValid(h) \/ ~DataInstances[h].allocated THEN {}
    ELSE LET inst == DataInstances[h]
             samplers == TextureSamplers(scene.texture)
         IN {inst.effectHash}
            \cup {inst.fields[i].hash : i \in {j \in DOMAIN inst.fields :
                                                  inst.fields[j].dataType = "buffer"}}
            \cup {samplers[inst.fields[i].sampler].textureResource :
                     i \in {j \in DOMAIN inst.fields :
                               /\ inst.fields[j].dataType = "sampler"
                               /\ isValid(inst.fields[j].sampler)
                               /\ samplers[inst.fields[j].sampler].allocated}}

\* The hashes the renderables of the given modes refer to.
hashesOfRenderables(scene, modes) ==
    UNION {hashesOfInstance(scene, scene.renderables[r].dataInstances[1])
           \cup hashesOfInstance(scene, scene.renderables[r].dataInstances[2]) :
              r \in {x \in RenderableHandles :
                        /\ scene.renderables[x].allocated
                        /\ scene.renderables[x].visibilityMode \in modes}}

hashesOfDataSlots(scene) ==
    {scene.dataSlots[d].attachedTexture :
        d \in {x \in DataSlotHandles : scene.dataSlots[x].allocated}}

C40_WitnessOff ==
    /\ lastOp.op = "GetAllResourcesFromScene"
    /\ lastOp.resources = <<>>
    /\ \E r \in RenderableHandles :
           /\ lastOp.scene.renderables[r].allocated
           /\ lastOp.scene.renderables[r].visibilityMode = "Off"
           /\ lastOp.scene.renderables[r].dataInstances[1] = 1

====
